---- MODULE Spec2Model ----
(***************************************************************************)
(* Rift: autonomous incident remediation.                                  *)
(*                                                                         *)
(*   - SafetyValidator (agents/safety_validator.py), a pure evaluator of   *)
(*     remediation plans;                                                  *)
(*   - RemediationAgent.execute_remediation (agents/remediation_agent.py), *)
(*     the pipeline generate -> validate -> safety -> backup -> plan ->    *)
(*     apply -> verify, one atomic step per stretch of code between two    *)
(*     suspension points (awaits on an external collaborator);             *)
(*   - Coordinator (orchestrator/coordinator.py) and the HTTP entry points *)
(*     of main.py, as asyncio tasks interleaving at those awaits.          *)
(*                                                                         *)
(* Text is a tuple of one-character strings, so that substring tests,      *)
(* lower-casing, stripping and counting are computed as the code does.     *)
(* Money is in cents (50.0 USD = 5000).  Confidence is in percent.         *)
(***************************************************************************)
EXTENDS Integers, Sequences, FiniteSets, TLC

(***************************************************************************)
(* Bounds of the model                                                     *)
(***************************************************************************)
MaxChecks == 1
MaxSteps == 1
MaxIncidents == 2
MaxDetected == 1
MaxLoopDetected == 2
MaxRetries == 4
MaxCallers == 2
MaxConfigs == 2

(***************************************************************************)
(* Text helpers: Python's `in`, str.lower, str.strip, str.count            *)
(***************************************************************************)
Contains(s, sub) ==
    \E i \in 1..(Len(s) - Len(sub) + 1) : SubSeq(s, i, i + Len(sub) - 1) = sub

LowerChar(c) ==
    CASE c = "D" -> "d"
      [] c = "F" -> "f"
      [] c = "R" -> "r"
      [] c = "O" -> "o"
      [] c = "P" -> "p"
      [] OTHER -> c

Lower(s) == [i \in 1..Len(s) |-> LowerChar(s[i])]

IsSpace(c) == c \in {" ", "\n", "\t"}

RECURSIVE LStrip(_)
LStrip(s) == IF s # <<>> /\ IsSpace(Head(s)) THEN LStrip(Tail(s)) ELSE s

RECURSIVE RStrip(_)
RStrip(s) ==
    IF s # <<>> /\ IsSpace(s[Len(s)]) THEN RStrip(SubSeq(s, 1, Len(s) - 1)) ELSE s

Strip(s) == RStrip(LStrip(s))

Count(s, c) == Cardinality({i \in 1..Len(s) : s[i] = c})

(***************************************************************************)
(* models/incident.py: RemediationAction and its string values             *)
(***************************************************************************)
RemediationAction ==
    {"RESIZE_DROPLET", "ADD_VOLUME", "RESTART_SERVICE", "UPDATE_FIREWALL",
     "CLEAN_DISK", "SCALE_KUBERNETES", "UPDATE_LOAD_BALANCER"}

ActionValue ==
    "RESIZE_DROPLET" :> <<"r","e","s","i","z","e","_","d","r","o","p","l","e","t">> @@
    "ADD_VOLUME" :> <<"a","d","d","_","v","o","l","u","m","e">> @@
    "RESTART_SERVICE" :> <<"r","e","s","t","a","r","t","_","s","e","r","v","i","c","e">> @@
    "UPDATE_FIREWALL" :> <<"u","p","d","a","t","e","_","f","i","r","e","w","a","l","l">> @@
    "CLEAN_DISK" :> <<"c","l","e","a","n","_","d","i","s","k">> @@
    "SCALE_KUBERNETES" :> <<"s","c","a","l","e","_","k","u","b","e","r","n","e","t","e","s">> @@
    "UPDATE_LOAD_BALANCER" :> <<"u","p","d","a","t","e","_","l","o","a","d","_","b","a","l","a","n","c","e","r">>

(* Text of the parameter keys that occur in the model.                     *)
KeyText ==
    "droplet_id" :> <<"d","r","o","p","l","e","t","_","i","d">> @@
    "new_size" :> <<"n","e","w","_","s","i","z","e">> @@
    "volume_name" :> <<"v","o","l","u","m","e","_","n","a","m","e">> @@
    "size_gb" :> <<"s","i","z","e","_","g","b">> @@
    "region" :> <<"r","e","g","i","o","n">> @@
    "firewall_id" :> <<"f","i","r","e","w","a","l","l","_","i","d">> @@
    "rules" :> <<"r","u","l","e","s">> @@
    "service_name" :> <<"s","e","r","v","i","c","e","_","n","a","m","e">> @@
    "path" :> <<"p","a","t","h">> @@
    "cluster_id" :> <<"c","l","u","s","t","e","r","_","i","d">> @@
    "node_count" :> <<"n","o","d","e","_","c","o","u","n","t">> @@
    "lb_id" :> <<"l","b","_","i","d">> @@
    "configuration" :> <<"c","o","n","f","i","g","u","r","a","t","i","o","n">> @@
    "diagnosis_id" :> <<"d","i","a","g","n","o","s","i","s","_","i","d">> @@
    "incident_id" :> <<"i","n","c","i","d","e","n","t","_","i","d">> @@
    "root_cause" :> <<"r","o","o","t","_","c","a","u","s","e">> @@
    "resource_type" :> <<"r","e","s","o","u","r","c","e","_","t","y","p","e">> @@
    "Force" :> <<"F","o","r","c","e">> @@
    "auto_destroy" :> <<"a","u","t","o","_","d","e","s","t","r","o","y">>

(***************************************************************************)
(* SafetyValidator                                                         *)
(***************************************************************************)
COST_THRESHOLD == 5000

DESTRUCTIVE_OPERATIONS ==
    { <<"d","e","l","e","t","e">>,
      <<"d","e","s","t","r","o","y">>,
      <<"t","e","r","m","i","n","a","t","e">>,
      <<"d","r","o","p">>,
      <<"r","e","m","o","v","e">> }

(* Optional[float] estimated_cost: None is NoCost                          *)
NoCost == -1

(* Optional[str] terraform_config: None is NoConfig                        *)
NoConfig == [present |-> FALSE, text |-> <<>>]
Config(t) == [present |-> TRUE, text |-> t]

(* Python truthiness of an Optional[str]                                   *)
Truthy(config) == config.present /\ config.text # <<>>

(* Optional[Dict] rollback_plan: None is NoRollback; a dict is its key set *)
(* and the length of the list under "steps"                                *)
NoRollback == [present |-> FALSE, fields |-> {}, steps |-> 0]
Rollback(f, n) == [present |-> TRUE, fields |-> f, steps |-> n]

(* Variant: the step list is not looked at.                                *)
verify_rollback_possible_steps_unchecked(plan) ==
    IF ~plan.rollback_plan.present \/ plan.rollback_plan.fields = {} THEN FALSE
    ELSE IF {"description", "steps"} \ plan.rollback_plan.fields # {} THEN FALSE
    ELSE TRUE

verify_rollback_possible(plan) ==
    IF ~plan.rollback_plan.present \/ plan.rollback_plan.fields = {} THEN FALSE
    ELSE IF {"description", "steps"} \ plan.rollback_plan.fields # {} THEN FALSE
    ELSE IF plan.rollback_plan.steps = 0 THEN FALSE
    ELSE TRUE

(* Variant: the parameter keys are not looked at.                          *)
check_destructive_ops_keys_unchecked(plan) ==
    LET action_name == Lower(ActionValue[plan.action]) IN
    IF \E k \in DESTRUCTIVE_OPERATIONS : Contains(action_name, k) THEN TRUE
    ELSE IF Truthy(plan.terraform_config)
            /\ \E k \in DESTRUCTIVE_OPERATIONS :
                  Contains(Lower(plan.terraform_config.text), k) THEN TRUE
    ELSE FALSE

check_destructive_ops(plan) ==
    LET action_name == Lower(ActionValue[plan.action]) IN
    IF \E k \in DESTRUCTIVE_OPERATIONS : Contains(action_name, k) THEN TRUE
    ELSE IF Truthy(plan.terraform_config)
            /\ \E k \in DESTRUCTIVE_OPERATIONS :
                  Contains(Lower(plan.terraform_config.text), k) THEN TRUE
    ELSE IF \E p \in plan.parameters :
                \/ Contains(Lower(KeyText[p]), <<"f","o","r","c","e">>)
                \/ Contains(Lower(KeyText[p]), <<"d","e","s","t","r","o","y">>) THEN TRUE
    ELSE FALSE

_calculate_cost(plan) ==
    CASE plan.action = "RESIZE_DROPLET" -> 1200
      [] plan.action = "ADD_VOLUME" ->
            (IF "size_gb" \in plan.parameters THEN plan.size_gb ELSE 100) * 10
      [] plan.action = "UPDATE_FIREWALL" -> 0
      [] plan.action = "SCALE_KUBERNETES" -> 1200
      [] plan.action = "UPDATE_LOAD_BALANCER" -> 1200
      [] OTHER -> 0

_calculate_one_time_cost(plan) == 0

estimate_cost(plan) ==
    LET monthly_cost == IF plan.estimated_cost # NoCost THEN plan.estimated_cost
                        ELSE _calculate_cost(plan)
        one_time_cost == _calculate_one_time_cost(plan)
    IN [one_time_cost |-> one_time_cost,
        monthly_cost |-> monthly_cost,
        total_first_month |-> one_time_cost + monthly_cost]

_get_required_params(action) ==
    CASE action = "RESIZE_DROPLET" -> <<"droplet_id", "new_size">>
      [] action = "ADD_VOLUME" -> <<"volume_name", "size_gb", "region">>
      [] action = "UPDATE_FIREWALL" -> <<"firewall_id", "rules">>
      [] action = "RESTART_SERVICE" -> <<"droplet_id", "service_name">>
      [] action = "CLEAN_DISK" -> <<"droplet_id", "path">>
      [] action = "SCALE_KUBERNETES" -> <<"cluster_id", "node_count">>
      [] action = "UPDATE_LOAD_BALANCER" -> <<"lb_id", "configuration">>
      [] OTHER -> <<>>

(* Variant: no block marker is asked for.                                  *)
_validate_terraform_syntax_marker_unchecked(config) ==
    IF Len(Strip(config)) = 0 THEN FALSE
    ELSE LET has_opening_brace == Contains(config, <<"{">>)
             has_closing_brace == Contains(config, <<"}">>)
             balanced_braces == Count(config, "{") = Count(config, "}")
         IN has_opening_brace /\ has_closing_brace /\ balanced_braces

_validate_terraform_syntax(config) ==
    IF Len(Strip(config)) = 0 THEN FALSE
    ELSE LET has_resource == \/ Contains(config, <<"r","e","s","o","u","r","c","e">>)
                             \/ Contains(config, <<"d","a","t","a">>)
                             \/ Contains(config, <<"m","o","d","u","l","e">>)
             has_opening_brace == Contains(config, <<"{">>)
             has_closing_brace == Contains(config, <<"}">>)
             balanced_braces == Count(config, "{") = Count(config, "}")
         IN has_resource /\ has_opening_brace /\ has_closing_brace /\ balanced_braces

(* The six checks of validate_plan, each appending to the three lists in   *)
(* the order of the code.                                                  *)
validate_plan(plan) ==
    LET rollback_ok == verify_rollback_possible(plan)
        is_destructive == check_destructive_ops(plan)
        has_cost == plan.estimated_cost # NoCost
        cost_ok == has_cost /\ estimate_cost(plan).total_first_month <= COST_THRESHOLD
        cost_over == has_cost /\ ~cost_ok
        checks_ok == plan.safety_checks > 0
        required_params == _get_required_params(plan.action)
        missing_params == SelectSeq(required_params, LAMBDA p : p \notin plan.parameters)
        has_config == Truthy(plan.terraform_config)
        syntax_ok == has_config /\ _validate_terraform_syntax(plan.terraform_config.text)
        requires_approval ==
            IF cost_over THEN TRUE
            ELSE IF is_destructive THEN TRUE
            ELSE plan.requires_approval
        passed_checks ==
            (IF rollback_ok THEN <<"Rollback plan exists and is valid">> ELSE <<>>)
            \o (IF ~is_destructive THEN <<"No destructive operations detected">> ELSE <<>>)
            \o (IF cost_ok THEN <<"Cost within auto-approve threshold">> ELSE <<>>)
            \o (IF checks_ok THEN <<"Safety checks defined">> ELSE <<>>)
            \o (IF missing_params = <<>> THEN <<"All required parameters present">> ELSE <<>>)
            \o (IF syntax_ok THEN <<"Terraform configuration syntax valid">> ELSE <<>>)
        failed_checks ==
            (IF ~rollback_ok THEN <<"No valid rollback plan found">> ELSE <<>>)
            \o (IF ~checks_ok THEN <<"No safety checks defined in plan">> ELSE <<>>)
            \o (IF missing_params # <<>> THEN <<"Missing required parameters">> ELSE <<>>)
            \o (IF has_config /\ ~syntax_ok
                THEN <<"Invalid Terraform configuration syntax">> ELSE <<>>)
        warnings ==
            (IF ~rollback_ok THEN <<"Execution without rollback capability is risky">> ELSE <<>>)
            \o (IF is_destructive THEN <<"Plan contains destructive operation">> ELSE <<>>)
            \o (IF cost_over THEN <<"Cost exceeds auto-approve threshold">> ELSE <<>>)
            \o (IF ~has_cost THEN <<"No cost estimate provided">> ELSE <<>>)
            \o (IF ~has_config THEN <<"No Terraform configuration provided">> ELSE <<>>)
    IN [is_safe |-> failed_checks = <<>>,
        passed_checks |-> passed_checks,
        failed_checks |-> failed_checks,
        warnings |-> warnings,
        requires_approval |-> requires_approval,
        missing_params |-> missing_params]


(***************************************************************************)
(* State                                                                   *)
(***************************************************************************)
VARIABLES
    v_plan,        \* the plan handed to SafetyValidator.validate_plan
    v_result,      \* <<>> before the call, <<ValidationResult>> after it
    running,                  \* Coordinator.running
    auto_remediation_enabled, \* Coordinator.auto_remediation_enabled
    active_incidents,         \* Coordinator.active_incidents (its key set)
    incident_status,          \* Incident.status of each incident object
    diagnoses,                \* Coordinator.diagnoses
    results,                  \* Coordinator.results
    stats,                    \* Coordinator.stats
    state_backups,            \* RemediationAgent.state_backups (its key set)
    loop_pc,                  \* position of the start_autonomous_loop task
    queue,                    \* incidents of the current tick still to handle
    tasks,                    \* locals of each task inside workflow / request
    plans_generated,          \* plans generated so far by each task (fresh ids)
    last_returned,            \* the execute_remediation call that has just returned
    last_diagnosed,           \* the diagnosis that has just returned to the workflow
    last_raised,              \* the incident whose workflow has just ended in its except clause
    stop_called,              \* stop_autonomous_loop has been called
    q_call,                   \* one BaseAgent.query_agent call: its locals and requests
    tf_files,                 \* main.tf and terraform.tfvars.json in TerraformMCP.working_dir
    tf_calls                  \* the TerraformMCP call of each caller: its arguments and position

v_vars == <<v_plan, v_result>>

c_vars == <<running, auto_remediation_enabled, active_incidents, incident_status,
            diagnoses, results, stats, state_backups, loop_pc, queue,
            tasks, plans_generated, last_returned, last_diagnosed, last_raised,
            stop_called>>

io_vars == <<q_call, tf_files, tf_calls>>

vars == <<v_vars, c_vars, io_vars>>

(***************************************************************************)
(* Inputs of the validator: every combination of the fields of a           *)
(* RemediationPlan that validate_plan reads.                               *)
(***************************************************************************)
Range(f) == {f[x] : x \in DOMAIN f}

TerraformConfigs ==
    { NoConfig,
      Config(<<>>),
      Config(<<" ">>),
      Config(<<"r","e","s","o","u","r","c","e","{","}">>),
      Config(<<"r","e","s","o","u","r","c","e","}","{">>),
      Config(<<"x","{","}">>),
      Config(<<"d","a","t","a","{">>),
      Config(<<"m","o","d","u","l","e","{","D","r","o","p","}">>) }

ExtraKeys == {"Force", "auto_destroy"}

ParameterSets(action) == SUBSET (Range(_get_required_params(action)) \cup ExtraKeys)

SizesGb(parameters) == IF "size_gb" \in parameters THEN {100, 600} ELSE {0}

RollbackPlans ==
    {NoRollback} \cup
    { Rollback(f, n) : f \in SUBSET {"description", "steps"}, n \in {0} } \cup
    { Rollback(f, n) : f \in {{"steps"}, {"description", "steps"}}, n \in 1..MaxSteps }

EstimatedCosts == {NoCost, 0, COST_THRESHOLD, COST_THRESHOLD + 1}

Plan(action, c, ps, gb, n, rb, ra, ec) ==
    [action |-> action,
     terraform_config |-> c,
     parameters |-> ps,
     size_gb |-> gb,
     safety_checks |-> n,
     rollback_plan |-> rb,
     requires_approval |-> ra,
     estimated_cost |-> ec]

(***************************************************************************)
(* models/incident.py: IncidentStatus, RemediationStatus                   *)
(***************************************************************************)
IncidentStatus ==
    {"DETECTED", "DIAGNOSING", "DIAGNOSED", "REMEDIATING", "RESOLVED", "FAILED"}

RemediationStatus ==
    {"PENDING", "VALIDATING", "PLANNING", "EXECUTING", "VERIFYING", "SUCCESS",
     "FAILED", "ROLLED_BACK"}

Incidents == 1..MaxIncidents
(* One HTTP request is in flight beside the loop task.                     *)
Requests == {1}
LoopTask == 0
Tasks == {LoopTask} \cup Requests

(* Coordinator.__init__: confidence_threshold = 0.85, in percent           *)
CONFIDENCE_THRESHOLD == 85

(***************************************************************************)
(* DiagnosticAgent                                                         *)
(***************************************************************************)
NoDiagnosis ==
    [incident_id |-> 0, confidence |-> 0, root_cause_category |-> "",
     estimated_cost |-> NoCost]

(* The metric of each incident the detector reports.                       *)
IncidentMetric(i) == IF i % 2 = 1 THEN "cpu_usage" ELSE "disk_usage"

_estimate_remediation(metric) ==
    IF metric = "cpu_usage" \/ metric = "memory_usage" THEN 1200
    ELSE IF metric = "disk_usage" THEN 1000
    ELSE 0

(* What the diagnosis provider's answer parses to: confidence (percent)    *)
(* and root-cause category.                                                *)
DiagnosisAnswers ==
    { [confidence |-> 60, root_cause_category |-> "performance"],
      [confidence |-> 85, root_cause_category |-> "capacity"] }

diagnose_incident(i, answer) ==
    [incident_id |-> i,
     confidence |-> answer.confidence,
     root_cause_category |-> answer.root_cause_category,
     estimated_cost |-> _estimate_remediation(IncidentMetric(i))]

(* Plan texts the provider may answer with.                                *)
PlanTexts ==
    { <<"r","e","s","i","z","e"," ","t","o"," ","s","-","2","v","c","p","u","-","4","g","b">>,
      <<"f","i","r","e","w","a","l","l">>,
      <<>> }

_determine_remediation_action(category, plan_text) ==
    LET plan_lower == Lower(plan_text) IN
    IF Contains(plan_lower, <<"r","e","s","i","z","e">>)
       \/ Contains(plan_lower, <<"s","c","a","l","e">>) THEN "RESIZE_DROPLET"
    ELSE IF Contains(plan_lower, <<"v","o","l","u","m","e">>)
            \/ Contains(plan_lower, <<"d","i","s","k">>) THEN "ADD_VOLUME"
    ELSE IF Contains(plan_lower, <<"r","e","s","t","a","r","t">>)
            \/ Contains(plan_lower, <<"r","e","b","o","o","t">>) THEN "RESTART_SERVICE"
    ELSE IF Contains(plan_lower, <<"f","i","r","e","w","a","l","l">>)
            \/ Contains(plan_lower, <<"s","e","c","u","r","i","t","y">>) THEN "UPDATE_FIREWALL"
    ELSE IF Contains(plan_lower, <<"c","l","e","a","n">>) THEN "CLEAN_DISK"
    ELSE IF category = "capacity" THEN "RESIZE_DROPLET"
    ELSE IF category = "security" THEN "UPDATE_FIREWALL"
    ELSE "RESTART_SERVICE"

IsDigit(c) == c \in {"0", "1", "2", "3", "4", "5", "6", "7", "8", "9"}

(* re.search(r's-\d+vcpu-\d+gb', plan_text)                                *)
HasSizeSlug(text) ==
    \E i \in 1..Len(text), a \in 1..Len(text), b \in 1..Len(text) :
        /\ i + 1 + a + 5 + b + 2 <= Len(text)
        /\ SubSeq(text, i, i + 1) = <<"s", "-">>
        /\ \A k \in (i + 2)..(i + 1 + a) : IsDigit(text[k])
        /\ SubSeq(text, i + 2 + a, i + 6 + a) = <<"v","c","p","u","-">>
        /\ \A k \in (i + 7 + a)..(i + 6 + a + b) : IsDigit(text[k])
        /\ SubSeq(text, i + 7 + a + b, i + 8 + a + b) = <<"g", "b">>

(* diagnose_incident always fills metadata with droplet_id and             *)
(* resource_type; droplet_ip (depends on the inventory) is left out: no    *)
(* check reads it.                                                         *)
_extract_remediation_parameters(plan_text, diagnosis) ==
    {"diagnosis_id", "incident_id", "root_cause", "droplet_id", "resource_type"}
    \cup (IF HasSizeSlug(plan_text) THEN {"new_size"} ELSE {})

NoPlan ==
    [id |-> <<0, 0>>, incident_id |-> 0, action |-> "RESTART_SERVICE",
     terraform_config |-> NoConfig, parameters |-> {}, size_gb |-> 0,
     safety_checks |-> 0, rollback_plan |-> NoRollback,
     requires_approval |-> FALSE, estimated_cost |-> NoCost]

generate_remediation_plan(diagnosis, plan_text, id) ==
    LET action == _determine_remediation_action(diagnosis.root_cause_category, plan_text)
    IN [id |-> id,
        incident_id |-> diagnosis.incident_id,
        action |-> action,
        terraform_config |-> NoConfig,
        parameters |-> _extract_remediation_parameters(plan_text, diagnosis),
        size_gb |-> 0,
        safety_checks |-> 4,
        rollback_plan |-> Rollback({"description", "steps"}, 2),
        requires_approval |->
            \/ (diagnosis.estimated_cost # NoCost /\ diagnosis.estimated_cost > 5000)
            \/ action = "UPDATE_FIREWALL",
        estimated_cost |-> diagnosis.estimated_cost]

(* Plans a client may post to Coordinator.route_to_agent("remediation").   *)
RoutePlan(id, i, ra) ==
    [id |-> id, incident_id |-> i, action |-> "UPDATE_FIREWALL",
     terraform_config |-> NoConfig, parameters |-> {"firewall_id", "rules"},
     size_gb |-> 0, safety_checks |-> 1,
     rollback_plan |-> Rollback({"description", "steps"}, 1),
     requires_approval |-> ra, estimated_cost |-> 0]

(***************************************************************************)
(* Results and task locals                                                 *)
(***************************************************************************)
NoResult ==
    [plan_id |-> <<0, 0>>, incident_id |-> 0, status |-> "NONE", success |-> FALSE,
     verification_passed |-> FALSE, rollback_executed |-> FALSE,
     actual_cost |-> NoCost, error_message |-> <<>>, logs |-> <<>>]

NoSafety == [reached |-> FALSE, is_safe |-> FALSE, requires_approval |-> FALSE]

IdleTask ==
    [pc |-> "idle", kind |-> "none", incident |-> 0, diagnosis |-> NoDiagnosis,
     plan |-> NoPlan, auto_approve |-> FALSE, safety_result |-> NoSafety,
     verification_passed |-> FALSE, logs |-> <<>>,
     parameters_serialisable |-> TRUE]

DoneTask == [IdleTask EXCEPT !.pc = "done"]

(* What is observed of a call of execute_remediation when it returns.      *)
NoReturn ==
    [task |-> -1, caller |-> "none", plan |-> NoPlan, auto_approve |-> FALSE,
     safety_result |-> NoSafety, result |-> NoResult]

(* What is observed of a diagnosis when it returns to the workflow.        *)
NoDiagnosed == [incident |-> 0, diagnosis |-> NoDiagnosis]

(* No workflow has just ended in `except Exception`.                       *)
NoRaised == 0

(* The whole state as one record, so that a step that runs through several *)
(* functions without suspending is the composition of their effects.       *)
(* last_returned, last_diagnosed and last_raised show a return only in the *)
(* state that follows it.                                                  *)
State ==
    [running |-> running,
     auto_remediation_enabled |-> auto_remediation_enabled,
     active_incidents |-> active_incidents,
     incident_status |-> incident_status,
     diagnoses |-> diagnoses,
     results |-> results,
     stats |-> stats,
     state_backups |-> state_backups,
     loop_pc |-> loop_pc,
     queue |-> queue,
     tasks |-> tasks,
     plans_generated |-> plans_generated,
     last_returned |-> NoReturn,
     last_diagnosed |-> NoDiagnosed,
     last_raised |-> NoRaised,
     stop_called |-> stop_called]

Becomes(s) ==
    /\ running' = s.running
    /\ auto_remediation_enabled' = s.auto_remediation_enabled
    /\ active_incidents' = s.active_incidents
    /\ incident_status' = s.incident_status
    /\ diagnoses' = s.diagnoses
    /\ results' = s.results
    /\ stats' = s.stats
    /\ state_backups' = s.state_backups
    /\ loop_pc' = s.loop_pc
    /\ queue' = s.queue
    /\ tasks' = s.tasks
    /\ plans_generated' = s.plans_generated
    /\ last_returned' = s.last_returned
    /\ last_diagnosed' = s.last_diagnosed
    /\ last_raised' = s.last_raised
    /\ stop_called' = s.stop_called
    /\ UNCHANGED <<v_vars, io_vars>>

(***************************************************************************)
(* Coordinator.handle_incident_workflow, start_autonomous_loop             *)
(***************************************************************************)
(* Variant: the workflow starts its diagnosis without writing DIAGNOSING.  *)
WorkflowStart_status_unset(s, i) ==
    [s EXCEPT !.active_incidents = @ \cup {i},
              !.stats.incidents_detected = @ + 1,
              !.loop_pc = "workflow",
              !.tasks[LoopTask] = [IdleTask EXCEPT !.pc = "diagnose_incident",
                                                   !.kind = "workflow",
                                                   !.incident = i]]

(* From the entry of handle_incident_workflow to its first await.          *)
WorkflowStart(s, i) ==
    [s EXCEPT !.active_incidents = @ \cup {i},
              !.stats.incidents_detected = @ + 1,
              !.incident_status[i] = "DIAGNOSING",
              !.loop_pc = "workflow",
              !.tasks[LoopTask] = [IdleTask EXCEPT !.pc = "diagnose_incident",
                                                   !.kind = "workflow",
                                                   !.incident = i]]

(* Variant: the tick is given up after the first workflow.                 *)
WorkflowReturn_tick_given_up(s) ==
    [s EXCEPT !.queue = <<>>,
              !.loop_pc = "sleep",
              !.tasks[LoopTask] = IdleTask]

(* handle_incident_workflow has returned: the for loop of the tick takes   *)
(* the next incident, or the loop goes to sleep.                           *)
WorkflowReturn(s) ==
    LET rest == Tail(s.queue) IN
    IF rest # <<>>
    THEN WorkflowStart([s EXCEPT !.queue = rest], Head(rest))
    ELSE [s EXCEPT !.queue = <<>>,
                   !.loop_pc = "sleep",
                   !.tasks[LoopTask] = IdleTask]

(* Variant: the except clause returns without writing the status.         *)
WorkflowRaised_status_kept(s) ==
    WorkflowReturn([s EXCEPT !.last_raised = s.tasks[LoopTask].incident])

(* except Exception: incident.status = FAILED; return None                 *)
WorkflowRaised(s) ==
    WorkflowReturn([s EXCEPT !.incident_status[s.tasks[LoopTask].incident] = "FAILED",
                             !.last_raised = s.tasks[LoopTask].incident])

(* `auto_approve=not plan.requires_approval` of handle_incident_workflow   *)
workflow_auto_approve(plan) == ~plan.requires_approval

(* Variant: the threshold itself does not pass.                            *)
should_remediate_strict(enabled, diagnosis) ==
    enabled /\ diagnosis.confidence > CONFIDENCE_THRESHOLD

should_remediate(enabled, diagnosis) ==
    enabled /\ diagnosis.confidence >= CONFIDENCE_THRESHOLD

(* Variant: the workflow goes on to the plan without the gate.             *)
WorkflowDiagnosed_ungated(s, diagnosis) ==
    LET i == s.tasks[LoopTask].incident
        s1 == [s EXCEPT !.diagnoses[i] = diagnosis,
                        !.incident_status[i] = "DIAGNOSED",
                        !.tasks[LoopTask].diagnosis = diagnosis,
                        !.last_diagnosed = [incident |-> i, diagnosis |-> diagnosis]]
    IN [s1 EXCEPT !.tasks[LoopTask].pc = "generate_remediation_plan"]

(* diagnose_incident returned: store, DIAGNOSED, gate.                     *)
WorkflowDiagnosed(s, diagnosis) ==
    LET i == s.tasks[LoopTask].incident
        s1 == [s EXCEPT !.diagnoses[i] = diagnosis,
                        !.incident_status[i] = "DIAGNOSED",
                        !.tasks[LoopTask].diagnosis = diagnosis,
                        !.last_diagnosed = [incident |-> i, diagnosis |-> diagnosis]]
    IN IF ~should_remediate(s.auto_remediation_enabled, diagnosis)
       THEN WorkflowReturn(s1)
       ELSE [s1 EXCEPT !.tasks[LoopTask].pc = "generate_remediation_plan"]

(* Variant: incidents_resolved counts every result obtained.               *)
WorkflowResult_counting_all(s, result) ==
    LET i == s.tasks[LoopTask].incident
        resolved == result.success /\ result.verification_passed
        st == s.stats
    IN WorkflowReturn(
         [s EXCEPT
            !.results[i] = result,
            !.stats = [st EXCEPT
                !.remediations_executed = @ + 1,
                !.remediations_successful = IF result.success THEN @ + 1 ELSE @,
                !.total_cost = IF result.actual_cost # NoCost /\ result.actual_cost # 0
                               THEN @ + result.actual_cost ELSE @,
                !.incidents_resolved = @ + 1],
            !.incident_status[i] = IF resolved THEN "RESOLVED" ELSE "FAILED"])

(* execute_remediation returned to handle_incident_workflow.               *)
WorkflowResult(s, result) ==
    LET i == s.tasks[LoopTask].incident
        resolved == result.success /\ result.verification_passed
        st == s.stats
    IN WorkflowReturn(
         [s EXCEPT
            !.results[i] = result,
            !.stats = [st EXCEPT
                !.remediations_executed = @ + 1,
                !.remediations_successful = IF result.success THEN @ + 1 ELSE @,
                !.total_cost = IF result.actual_cost # NoCost /\ result.actual_cost # 0
                               THEN @ + result.actual_cost ELSE @,
                !.incidents_resolved = IF resolved THEN @ + 1 ELSE @],
            !.incident_status[i] = IF resolved THEN "RESOLVED" ELSE "FAILED"])

(***************************************************************************)
(* RemediationAgent.execute_remediation                                    *)
(***************************************************************************)
(* Variant: the outcome of the rollback is not carried into the result.    *)
_create_failed_result_rollback_dropped(plan, error_message, logs, rollback_executed) ==
    [plan_id |-> plan.id,
     incident_id |-> plan.incident_id,
     status |-> "FAILED",
     success |-> FALSE,
     verification_passed |-> FALSE,
     rollback_executed |-> FALSE,
     actual_cost |-> NoCost,
     error_message |-> error_message,
     logs |-> logs]

(* error_message is the text of the message followed by what the code     *)
(* joins into it after the colon: the failed checks of the validator, or   *)
(* the errors or the output the Change Executor handed back, which stand   *)
(* here under the names they have in the code.                             *)
_create_failed_result(plan, error_message, logs, rollback_executed) ==
    [plan_id |-> plan.id,
     incident_id |-> plan.incident_id,
     status |-> "FAILED",
     success |-> FALSE,
     verification_passed |-> FALSE,
     rollback_executed |-> rollback_executed,
     actual_cost |-> NoCost,
     error_message |-> error_message,
     logs |-> logs]

(* Variant: the workflow counts a returned execution twice.                *)
Return_counted_twice(s, t, result) ==
    LET tk == s.tasks[t]
        s1 == [s EXCEPT !.last_returned =
                  [task |-> t,
                   caller |-> tk.kind,
                   plan |-> tk.plan,
                   auto_approve |-> tk.auto_approve,
                   safety_result |-> tk.safety_result,
                   result |-> result]]
    IN CASE tk.kind = "workflow" ->
              WorkflowResult([s1 EXCEPT !.stats.remediations_executed = @ + 1], result)
         [] tk.kind = "remediate" ->
              [s1 EXCEPT !.results[tk.incident] = result, !.tasks[t] = DoneTask]
         [] OTHER -> [s1 EXCEPT !.tasks[t] = DoneTask]

(* execute_remediation returns result to its caller, which runs on to its  *)
(* own next await.                                                         *)
Return(s, t, result) ==
    LET tk == s.tasks[t]
        s1 == [s EXCEPT !.last_returned =
                  [task |-> t,
                   caller |-> tk.kind,
                   plan |-> tk.plan,
                   auto_approve |-> tk.auto_approve,
                   safety_result |-> tk.safety_result,
                   result |-> result]]
    IN CASE tk.kind = "workflow" -> WorkflowResult(s1, result)
         [] tk.kind = "remediate" ->
              [s1 EXCEPT !.results[tk.incident] = result, !.tasks[t] = DoneTask]
         [] OTHER -> [s1 EXCEPT !.tasks[t] = DoneTask]

(* Entry of execute_remediation up to `await self.generate_terraform`.     *)
ExecuteStart(s, t, plan, auto_approve) ==
    [s EXCEPT !.tasks[t].pc = "generate_terraform",
              !.tasks[t].plan = plan,
              !.tasks[t].auto_approve = auto_approve,
              !.tasks[t].logs = <<"Starting remediation",
                                  "Step 1: Generating Terraform configuration...">>]

(* The exception that json.dumps(parameters) raises in generate_terraform,  *)
(* before the try of that method, for a parameter value that JSON cannot    *)
(* carry (parameters: Dict[str, Any], handed in by route_to_agent).         *)
DumpsError == "Object is not JSON serializable"

(* Variant: the exception goes on to the caller, no result is returned.     *)
ExecuteRaised_propagates(s, t, text) ==
    [s EXCEPT !.tasks[t] = DoneTask]

(* The except clause of execute_remediation: the exception is logged and a  *)
(* FAILED result with its text is returned.                                 *)
ExecuteRaised(s, t, text) ==
    LET tk == s.tasks[t]
    IN Return(s, t, _create_failed_result(tk.plan, <<text>>,
                                          tk.logs \o <<"Exception">>, FALSE))

(* Variant: an empty document is found out only once its validation has   *)
(* been started.                                                           *)
ExecuteGenerated_validated_first(s, t, nonempty) ==
    LET tk == s.tasks[t] IN
    IF ~nonempty
    THEN Return(s, t, _create_failed_result(tk.plan,
                 <<"Failed to generate Terraform configuration">>,
                 tk.logs \o <<"Step 2: Validating Terraform configuration...">>, FALSE))
    ELSE [s EXCEPT !.tasks[t].pc = "validate_terraform",
                   !.tasks[t].logs = @ \o <<"Generated Terraform config",
                        "Step 2: Validating Terraform configuration...">>]

(* generate_terraform returned (it returns "" on any error).               *)
ExecuteGenerated(s, t, nonempty) ==
    LET tk == s.tasks[t] IN
    IF ~nonempty
    THEN Return(s, t, _create_failed_result(tk.plan,
                 <<"Failed to generate Terraform configuration">>, tk.logs, FALSE))
    ELSE [s EXCEPT !.tasks[t].pc = "validate_terraform",
                   !.tasks[t].logs = @ \o <<"Generated Terraform config",
                        "Step 2: Validating Terraform configuration...">>]

(* Variant: the held plan is reported as a failure.                        *)
approval_pending_result_as_failure(plan, logs) ==
    [plan_id |-> plan.id,
     incident_id |-> plan.incident_id,
     status |-> "FAILED",
     success |-> FALSE,
     verification_passed |-> FALSE,
     rollback_executed |-> FALSE,
     actual_cost |-> NoCost,
     error_message |-> <<"Approval required">>,
     logs |-> logs]

(* The RemediationResult returned at the approval gate; each warning of    *)
(* the validator is an entry of the logs.                                  *)
approval_pending_result(plan, logs) ==
    [plan_id |-> plan.id,
     incident_id |-> plan.incident_id,
     status |-> "PENDING",
     success |-> FALSE,
     verification_passed |-> FALSE,
     rollback_executed |-> FALSE,
     actual_cost |-> NoCost,
     error_message |-> <<"Approval required">>,
     logs |-> logs]

(* Variant: the negation of auto_approve is lost.                          *)
approval_required_negation_lost(safety_result, auto_approve) ==
    safety_result.requires_approval /\ auto_approve

(* `if safety_result.requires_approval and not auto_approve`               *)
approval_required(safety_result, auto_approve) ==
    safety_result.requires_approval /\ ~auto_approve

(* validate_terraform returned; the safety validation and the approval     *)
(* gate run without suspending, up to `await self._backup_state`.          *)
ExecuteValidated(s, t, valid) ==
    LET tk == s.tasks[t]
        safety_result == validate_plan(tk.plan)
        logs3 == tk.logs \o <<"Terraform configuration is valid",
                              "Step 3: Running safety validation...">>
        logs4 == logs3 \o <<"Safety checks passed">> \o safety_result.warnings
        s1 == [s EXCEPT !.tasks[t].safety_result =
                  [reached |-> TRUE,
                   is_safe |-> safety_result.is_safe,
                   requires_approval |-> safety_result.requires_approval]]
    IN IF ~valid
       THEN Return(s, t, _create_failed_result(tk.plan,
                    <<"Terraform validation failed", "validation_result.errors">>,
                    tk.logs, FALSE))
       ELSE IF ~safety_result.is_safe
       THEN Return(s1, t, _create_failed_result(tk.plan,
                    <<"Safety validation failed">> \o safety_result.failed_checks,
                    logs3, FALSE))
       ELSE IF approval_required(safety_result, tk.auto_approve)
       THEN Return(s1, t,
               approval_pending_result(tk.plan,
                    logs4 \o <<"Approval required before proceeding">>))
       ELSE [s1 EXCEPT !.tasks[t].pc = "_backup_state",
                       !.tasks[t].logs = logs4 \o <<"Step 4: Backing up current state...">>]

(* Variant: the dry-run is started without an entry in the logs.           *)
ExecuteBackedUp_step_unlogged(s, t) ==
    [s EXCEPT !.state_backups = @ \cup {s.tasks[t].plan.id},
              !.tasks[t].pc = "plan",
              !.tasks[t].logs = @ \o <<"State backup complete">>]

(* show_state returned (it returns {} on any error): the backup is stored. *)
ExecuteBackedUp(s, t) ==
    [s EXCEPT !.state_backups = @ \cup {s.tasks[t].plan.id},
              !.tasks[t].pc = "plan",
              !.tasks[t].logs = @ \o <<"State backup complete",
                    "Step 5: Running Terraform plan (dry-run)...">>]

(* Variant: the changes are applied whatever the dry-run said.             *)
ExecutePlanned_failure_ignored(s, t, success) ==
    [s EXCEPT !.tasks[t].pc = "apply_changes",
              !.tasks[t].logs = @ \o (IF success
                                      THEN <<"Plan: to add, to change, to destroy">>
                                      ELSE <<>>)
                                  \o <<"Step 6: Applying Terraform changes...">>]

(* terraform_mcp.plan returned; on success apply_changes is called.        *)
ExecutePlanned(s, t, success) ==
    LET tk == s.tasks[t] IN
    IF ~success
    THEN Return(s, t, _create_failed_result(tk.plan,
                 <<"Terraform plan failed", "plan_result.plan_output">>, tk.logs, FALSE))
    ELSE [s EXCEPT !.tasks[t].pc = "apply_changes",
                   !.tasks[t].logs = @ \o <<"Plan: to add, to change, to destroy",
                         "Step 6: Applying Terraform changes...">>]

rollback(state_backups_, plan) ==
    IF plan.id \notin state_backups_ THEN FALSE ELSE TRUE

(* Variant: the rollback is tried a second time.                           *)
ExecuteApplied_rollback_retried(s, t, success) ==
    LET tk == s.tasks[t]
        rollback_success == rollback(s.state_backups, tk.plan)
    IN IF ~success
       THEN Return(s, t, _create_failed_result(tk.plan, <<"Apply failed">>,
                    tk.logs \o <<"Apply failed, attempting rollback...",
                                 "Apply failed, attempting rollback...",
                                 IF rollback_success THEN "Rollback succeeded"
                                                     ELSE "Rollback failed">>,
                    rollback_success))
       ELSE [s EXCEPT !.tasks[t].pc = "verify_fix",
                      !.tasks[t].logs = @ \o <<"Applied successfully",
                            "Step 7: Verifying fix...">>]

(* apply_changes returned.                                                 *)
ExecuteApplied(s, t, success) ==
    LET tk == s.tasks[t]
        rollback_success == rollback(s.state_backups, tk.plan)
    IN IF ~success
       THEN Return(s, t, _create_failed_result(tk.plan, <<"Apply failed">>,
                    tk.logs \o <<"Apply failed, attempting rollback...",
                                 IF rollback_success THEN "Rollback succeeded"
                                                     ELSE "Rollback failed">>,
                    rollback_success))
       ELSE [s EXCEPT !.tasks[t].pc = "verify_fix",
                      !.tasks[t].logs = @ \o <<"Applied successfully",
                            "Step 7: Verifying fix...">>]

(* The placeholder of the source: wait, then True.                         *)
verify_fix(incident_id) == TRUE

(* The stabilisation sleep of verify_fix is over.                          *)
ExecuteVerified(s, t) ==
    LET verification_passed == verify_fix(s.tasks[t].plan.incident_id) IN
    [s EXCEPT !.tasks[t].pc = "_update_knowledge_base",
              !.tasks[t].verification_passed = verification_passed,
              !.tasks[t].logs = @
                  \o <<IF verification_passed THEN "Verification: PASSED"
                                              ELSE "Verification: FAILED">>
                  \o (IF ~verification_passed
                      THEN <<"Fix did not resolve the issue, consider rollback">>
                      ELSE <<>>)
                  \o <<"Step 8: Updating knowledge base...">>]

(* Variant: the outcome of the verification is not carried into the       *)
(* result.                                                                 *)
ExecuteFinished_verification_dropped(s, t) ==
    LET tk == s.tasks[t]
        verification_passed == tk.verification_passed
    IN Return(s, t,
         [plan_id |-> tk.plan.id,
          incident_id |-> tk.plan.incident_id,
          status |-> IF verification_passed THEN "SUCCESS" ELSE "VERIFYING",
          success |-> TRUE,
          verification_passed |-> FALSE,
          rollback_executed |-> FALSE,
          actual_cost |-> tk.plan.estimated_cost,
          error_message |-> <<>>,
          logs |-> tk.logs \o <<"Knowledge base updated">>])

(* _update_knowledge_base returned (it swallows its errors).               *)
ExecuteFinished(s, t) ==
    LET tk == s.tasks[t]
        verification_passed == tk.verification_passed
    IN Return(s, t,
         [plan_id |-> tk.plan.id,
          incident_id |-> tk.plan.incident_id,
          status |-> IF verification_passed THEN "SUCCESS" ELSE "VERIFYING",
          success |-> TRUE,
          verification_passed |-> verification_passed,
          rollback_executed |-> FALSE,
          actual_cost |-> tk.plan.estimated_cost,
          error_message |-> <<>>,
          logs |-> tk.logs \o <<"Knowledge base updated">>])


(***************************************************************************)
(* Actions: one per resumption of a task at an await                       *)
(***************************************************************************)
RECURSIVE Ascending(_)
Ascending(S) ==
    IF S = {} THEN <<>>
    ELSE LET m == CHOOSE x \in S : \A y \in S : x <= y
         IN <<m>> \o Ascending(S \ {m})

ZeroStats ==
    [incidents_detected |-> 0, incidents_resolved |-> 0,
     remediations_executed |-> 0, remediations_successful |-> 0,
     total_cost |-> 0]

(***************************************************************************)
(* BaseAgent.query_agent and TerraformMCP before any call                  *)
(***************************************************************************)
DEFAULT_MAX_RETRIES == 3

Callers == 1..MaxCallers

NoQuery ==
    [max_retries |-> DEFAULT_MAX_RETRIES, pc |-> "idle", attempt |-> 0,
     sent |-> 0, answers |-> <<>>, slept |-> <<>>, outcome |-> "none"]

NoFiles == [main_tf |-> 0, tfvars |-> 0]

NoTerraformCall ==
    [pc |-> "idle", op |-> "none", config |-> 0, variables |-> 0,
     ran |-> NoFiles]

IoInit ==
    /\ q_call = NoQuery
    /\ tf_files = NoFiles
    /\ tf_calls = [c \in Callers |-> NoTerraformCall]

CoordinatorInit ==
    /\ running = FALSE
    /\ active_incidents = {}
    /\ incident_status = [i \in Incidents |-> "DETECTED"]
    /\ diagnoses = [i \in Incidents |-> NoDiagnosis]
    /\ results = [i \in Incidents |-> NoResult]
    /\ stats = ZeroStats
    /\ state_backups = {}
    /\ loop_pc = "not_started"
    /\ queue = <<>>
    /\ tasks = [t \in Tasks |-> IdleTask]
    /\ plans_generated = [t \in Tasks |-> 0]
    /\ last_returned = NoReturn
    /\ last_diagnosed = NoDiagnosed
    /\ last_raised = NoRaised
    /\ stop_called = FALSE

Init ==
    /\ auto_remediation_enabled \in BOOLEAN
    /\ CoordinatorInit
    /\ IoInit
    /\ v_plan = Plan("RESTART_SERVICE", NoConfig, {}, 0, 0, NoRollback, FALSE, NoCost)
    /\ v_result = <<>>

(* start_autonomous_loop: running = True, first poll.                      *)
StartLoop ==
    /\ loop_pc = "not_started"
    /\ Becomes([State EXCEPT !.running = TRUE, !.loop_pc = "detect"])

(* check_all_infrastructure returned the incidents S; the detector stops   *)
(* reporting incidents once incidents_detected would pass the budget.      *)
DetectedUpTo(budget) ==
    /\ loop_pc = "detect"
    /\ \E S \in SUBSET Incidents :
          /\ stats.incidents_detected + Cardinality(S) <= budget
          /\ IF S = {}
             THEN Becomes([State EXCEPT !.loop_pc = "sleep"])
             ELSE Becomes(WorkflowStart([State EXCEPT !.queue = Ascending(S)],
                                        Head(Ascending(S))))

(* check_all_infrastructure raised: logged, the loop sleeps.               *)
DetectFailed ==
    /\ loop_pc = "detect"
    /\ Becomes([State EXCEPT !.loop_pc = "sleep"])

(* asyncio.sleep(check_interval) is over: `while self.running`.            *)
Wake ==
    /\ loop_pc = "sleep"
    /\ IF running
       THEN Becomes([State EXCEPT !.loop_pc = "detect"])
       ELSE Becomes([State EXCEPT !.loop_pc = "exited"])

(* stop_autonomous_loop                                                    *)
StopLoop ==
    /\ running
    /\ Becomes([State EXCEPT !.running = FALSE, !.stop_called = TRUE])

(* lifespan shutdown: stop_autonomous_loop(), then monitoring_task.cancel() *)
(* with no await in between. CancelledError is raised at the await where   *)
(* the loop task is suspended; it is not an Exception, so neither          *)
(* execute_remediation nor handle_incident_workflow nor the inner handler  *)
(* of the loop catches it: `except asyncio.CancelledError` of              *)
(* start_autonomous_loop sets running = False and the task ends.           *)
Cancel ==
    /\ loop_pc \in {"detect", "sleep", "workflow"}
    /\ Becomes([State EXCEPT !.running = FALSE,
                             !.stop_called = TRUE,
                             !.loop_pc = "exited",
                             !.queue = <<>>,
                             !.tasks[LoopTask] = IdleTask])

(* diagnose_incident returned a diagnosis.                                 *)
Diagnosed(t) ==
    /\ tasks[t].pc = "diagnose_incident"
    /\ \E answer \in DiagnosisAnswers :
          LET diagnosis == diagnose_incident(tasks[t].incident, answer) IN
          IF tasks[t].kind = "workflow"
          THEN Becomes(WorkflowDiagnosed(State, diagnosis))
          ELSE Becomes([State EXCEPT !.diagnoses[tasks[t].incident] = diagnosis,
                                     !.tasks[t] = DoneTask])

(* Variant: the error of the diagnosis passes the workflow by and is       *)
(* caught by the loop.                                                    *)
DiagnoseFailed_escapes(t) ==
    /\ tasks[t].pc = "diagnose_incident"
    /\ IF tasks[t].kind = "workflow"
       THEN Becomes([State EXCEPT !.queue = <<>>,
                                  !.loop_pc = "sleep",
                                  !.tasks[LoopTask] = IdleTask])
       ELSE Becomes([State EXCEPT !.tasks[t] = DoneTask])

(* diagnose_incident raised.                                               *)
DiagnoseFailed(t) ==
    /\ tasks[t].pc = "diagnose_incident"
    /\ IF tasks[t].kind = "workflow"
       THEN Becomes(WorkflowRaised(State))
       ELSE Becomes([State EXCEPT !.tasks[t] = DoneTask])

(* generate_remediation_plan returned a plan: the caller enters            *)
(* execute_remediation.                                                    *)
Planned(t) ==
    /\ tasks[t].pc = "generate_remediation_plan"
    /\ \E plan_text \in PlanTexts :
          LET plan == generate_remediation_plan(tasks[t].diagnosis, plan_text,
                                                <<t, plans_generated[t] + 1>>)
              s1 == [State EXCEPT !.plans_generated[t] = @ + 1]
          IN IF tasks[t].kind = "workflow"
             THEN Becomes(ExecuteStart(
                     [s1 EXCEPT !.incident_status[tasks[t].incident] = "REMEDIATING"],
                     t, plan, workflow_auto_approve(plan)))
             ELSE Becomes(ExecuteStart(s1, t, plan, tasks[t].auto_approve))

(* generate_remediation_plan raised.                                       *)
PlanFailed(t) ==
    /\ tasks[t].pc = "generate_remediation_plan"
    /\ IF tasks[t].kind = "workflow"
       THEN Becomes(WorkflowRaised(State))
       ELSE Becomes([State EXCEPT !.tasks[t] = DoneTask])

Generated(t) ==
    /\ tasks[t].pc = "generate_terraform"
    /\ IF tasks[t].parameters_serialisable
          THEN \E nonempty \in BOOLEAN : Becomes(ExecuteGenerated(State, t, nonempty))
          ELSE Becomes(ExecuteRaised(State, t, DumpsError))

Validated(t) ==
    /\ tasks[t].pc = "validate_terraform"
    /\ \E valid \in BOOLEAN : Becomes(ExecuteValidated(State, t, valid))

(* Variant: the snapshot step ends without a record under the plan's id.   *)
BackedUp_nothing_stored(t) ==
    /\ tasks[t].pc = "_backup_state"
    /\ Becomes([ExecuteBackedUp(State, t) EXCEPT !.state_backups = state_backups])

BackedUp(t) ==
    /\ tasks[t].pc = "_backup_state"
    /\ Becomes(ExecuteBackedUp(State, t))

DryRun(t) ==
    /\ tasks[t].pc = "plan"
    /\ \E success \in BOOLEAN : Becomes(ExecutePlanned(State, t, success))

Applied(t) ==
    /\ tasks[t].pc = "apply_changes"
    /\ \E success \in BOOLEAN : Becomes(ExecuteApplied(State, t, success))

Verified(t) ==
    /\ tasks[t].pc = "verify_fix"
    /\ Becomes(ExecuteVerified(State, t))

KnowledgeBaseUpdated(t) ==
    /\ tasks[t].pc = "_update_knowledge_base"
    /\ Becomes(ExecuteFinished(State, t))

(* main.py POST /incidents/remediate                                       *)
RemediateRequest(r) ==
    /\ tasks[r].pc = "idle"
    /\ \E i \in Incidents, auto_approve \in BOOLEAN :
          IF diagnoses[i] = NoDiagnosis
          THEN Becomes([State EXCEPT !.tasks[r] = DoneTask])
          ELSE Becomes([State EXCEPT !.tasks[r] =
                  [IdleTask EXCEPT !.pc = "generate_remediation_plan",
                                   !.kind = "remediate",
                                   !.incident = i,
                                   !.diagnosis = diagnoses[i],
                                   !.auto_approve = auto_approve]])

(* Variant: the incident is not looked up in active_incidents.             *)
DiagnoseRequest_unchecked(r) ==
    /\ tasks[r].pc = "idle"
    /\ \E i \in Incidents :
          Becomes([State EXCEPT !.tasks[r] =
                  [IdleTask EXCEPT !.pc = "diagnose_incident",
                                   !.kind = "diagnose",
                                   !.incident = i]])

(* main.py POST /incidents/diagnose                                        *)
DiagnoseRequest(r) ==
    /\ tasks[r].pc = "idle"
    /\ \E i \in Incidents :
          IF i \notin active_incidents
          THEN Becomes([State EXCEPT !.tasks[r] = DoneTask])
          ELSE Becomes([State EXCEPT !.tasks[r] =
                  [IdleTask EXCEPT !.pc = "diagnose_incident",
                                   !.kind = "diagnose",
                                   !.incident = i]])

(* Coordinator.route_to_agent("remediation", {"plan": ...})                *)
RouteRequest(r) ==
    /\ tasks[r].pc = "idle"
    /\ \E i \in Incidents, ra \in BOOLEAN, serialisable \in BOOLEAN :
          Becomes(ExecuteStart(
             [State EXCEPT !.plans_generated[r] = @ + 1,
                           !.tasks[r] = [IdleTask EXCEPT
                                            !.kind = "route", !.incident = i,
                                            !.parameters_serialisable = serialisable]],
             r, RoutePlan(<<r, plans_generated[r] + 1>>, i, ra), FALSE))

Detected == DetectedUpTo(MaxDetected)

LoopDetected == DetectedUpTo(MaxLoopDetected)

Next ==
    \/ StartLoop
    \/ Detected
    \/ DetectFailed
    \/ Wake
    \/ StopLoop
    \/ \E t \in Tasks :
          \/ Diagnosed(t)
          \/ DiagnoseFailed(t)
          \/ Planned(t)
          \/ PlanFailed(t)
          \/ Generated(t)
          \/ Validated(t)
          \/ BackedUp(t)
          \/ DryRun(t)
          \/ Applied(t)
          \/ Verified(t)
          \/ KnowledgeBaseUpdated(t)
    \/ \E r \in Requests :
          \/ RemediateRequest(r)
          \/ DiagnoseRequest(r)
          \/ RouteRequest(r)

Spec == Init /\ [][Next]_vars

(* The autonomous loop alone, from its creation to the shutdown of the     *)
(* application: the server answers the requests in flight before it runs   *)
(* the shutdown part of lifespan, so the cancellation meets no request.    *)
LoopNext ==
    \/ StartLoop
    \/ LoopDetected
    \/ DetectFailed
    \/ Wake
    \/ StopLoop
    \/ Cancel
    \/ Diagnosed(LoopTask)
    \/ DiagnoseFailed(LoopTask)
    \/ Planned(LoopTask)
    \/ PlanFailed(LoopTask)
    \/ Generated(LoopTask)
    \/ Validated(LoopTask)
    \/ BackedUp(LoopTask)
    \/ DryRun(LoopTask)
    \/ Applied(LoopTask)
    \/ Verified(LoopTask)
    \/ KnowledgeBaseUpdated(LoopTask)

LoopSpec == Init /\ [][LoopNext]_vars

(***************************************************************************)
(* Specification of the validator alone: one plan, one call.               *)
(***************************************************************************)
ValidatorInit ==
    /\ auto_remediation_enabled = TRUE
    /\ CoordinatorInit
    /\ IoInit
    /\ \E action \in RemediationAction, c \in TerraformConfigs, n \in 0..MaxChecks,
          rb \in RollbackPlans, ra \in BOOLEAN, ec \in EstimatedCosts :
          \E ps \in ParameterSets(action) :
             \E gb \in SizesGb(ps) :
                v_plan = Plan(action, c, ps, gb, n, rb, ra, ec)
    /\ v_result = <<>>

ValidatePlan ==
    /\ v_result = <<>>
    /\ v_result' = <<validate_plan(v_plan)>>
    /\ UNCHANGED <<v_plan, c_vars, io_vars>>

ValidatorNext == ValidatePlan

ValidatorSpec == ValidatorInit /\ [][ValidatorNext]_vars

(***************************************************************************)
(* Properties                                                              *)
(***************************************************************************)
(* Positions of a task inside execute_remediation, and those where the     *)
(* apply has been invoked.                                                 *)
PipelinePcs ==
    {"generate_terraform", "validate_terraform", "_backup_state", "plan",
     "apply_changes", "verify_fix", "_update_knowledge_base"}

AppliedPcs == {"apply_changes", "verify_fix", "_update_knowledge_base"}

Returned == last_returned.task # -1

FlaggedUnapproved(plan, auto_approve) == plan.requires_approval /\ ~auto_approve

(* C1 (as the specification states it): an apply is never invoked for a    *)
(* plan whose own requires_approval flag is true unless the caller passed  *)
(* auto_approve = true, and without approval the remediation ends with a   *)
(* PENDING result, for every caller.                                       *)
C1_FlaggedPlanEndsPending ==
    /\ \A t \in Tasks :
          tasks[t].pc \in AppliedPcs =>
             ~FlaggedUnapproved(tasks[t].plan, tasks[t].auto_approve)
    /\ (Returned /\ FlaggedUnapproved(last_returned.plan, last_returned.auto_approve))
          => last_returned.result.status = "PENDING"

(* C1 (amended): an apply is never invoked for a plan whose own            *)
(* requires_approval flag is true unless the caller passed auto_approve =  *)
(* true; without approval the remediation ends PENDING when it reaches the *)
(* approval gate (the plan passed generation, validation and the safety    *)
(* checks) and FAILED when one of those earlier steps fails; in both cases *)
(* success is false and nothing was backed up or applied.                  *)
C1_FlaggedPlanNeverApplied ==
    /\ \A t \in Tasks :
          tasks[t].pc \in AppliedPcs =>
             ~FlaggedUnapproved(tasks[t].plan, tasks[t].auto_approve)
    /\ (Returned /\ FlaggedUnapproved(last_returned.plan, last_returned.auto_approve))
          => /\ last_returned.result.status =
                   IF last_returned.safety_result.reached
                      /\ last_returned.safety_result.is_safe
                   THEN "PENDING" ELSE "FAILED"
             /\ ~last_returned.result.success
             /\ ~last_returned.result.rollback_executed
             /\ last_returned.plan.id \notin state_backups

(* A flagged plan posted without approval has come back PENDING.           *)
C1_Witness ==
    /\ Returned
    /\ FlaggedUnapproved(last_returned.plan, last_returned.auto_approve)
    /\ last_returned.safety_result.is_safe
    /\ last_returned.result.status = "PENDING"

(* C2: in handle_incident_workflow, apply is never invoked for a plan for  *)
(* which the validator's output has requires_approval = true, also when    *)
(* that was forced on a plan that declared requires_approval = false (the  *)
(* remediation stops at the approval gate with a PENDING result).          *)
C2_ValidatorApprovalHoldsWorkflow ==
    (tasks[LoopTask].kind = "workflow" /\ tasks[LoopTask].safety_result.requires_approval)
       => tasks[LoopTask].pc \notin AppliedPcs

(* C3: two executions of execute_remediation for the same incident id are  *)
(* never inside the pipeline at the same time.                             *)
C3_MutualExclusion ==
    \A t1, t2 \in Tasks :
        (t1 # t2 /\ tasks[t1].pc \in PipelinePcs /\ tasks[t2].pc \in PipelinePcs)
           => tasks[t1].plan.incident_id # tasks[t2].plan.incident_id

GateMet(diagnosis) ==
    auto_remediation_enabled /\ diagnosis.confidence >= CONFIDENCE_THRESHOLD

WorkflowOver(i) ==
    ~(tasks[LoopTask].kind = "workflow" /\ tasks[LoopTask].incident = i)

C5_GateNotMetFrame ==
    [][(last_diagnosed'.incident # 0 /\ ~GateMet(last_diagnosed'.diagnosis)) =>
         LET i == last_diagnosed'.incident IN
         /\ plans_generated' = plans_generated
         /\ tasks'[LoopTask].pc \in {"idle", "diagnose_incident"}
         /\ tasks'[LoopTask].plan = NoPlan
         /\ last_returned' = NoReturn
         /\ results' = results
         /\ stats'.remediations_executed = stats.remediations_executed
         /\ stats'.remediations_successful = stats.remediations_successful
         /\ stats'.incidents_resolved = stats.incidents_resolved
         /\ stats'.total_cost = stats.total_cost
         /\ state_backups' = state_backups
         /\ running' = running
         /\ \A r \in Requests : tasks'[r] = tasks[r]
         /\ diagnoses' = [diagnoses EXCEPT ![i] = last_diagnosed'.diagnosis]
         /\ \A j \in Incidents \ {i} :
               incident_status'[j] \in {incident_status[j], "DIAGNOSING"}]_vars

(* Auto-remediation disabled and a diagnosis at the threshold.             *)
C5_Witness ==
    /\ last_diagnosed.incident # 0
    /\ ~auto_remediation_enabled
    /\ last_diagnosed.diagnosis.confidence >= CONFIDENCE_THRESHOLD
    /\ stats.incidents_detected > 0
    /\ stats.remediations_executed = 0

(* C6: when apply reports failure (the task leaves apply_changes without   *)
(* going on to verify_fix), execute_remediation returns a result with      *)
(* status FAILED, success false, and rollback_executed equal to the        *)
(* outcome of the rollback, which succeeds iff a backup of the plan's      *)
(* state exists, and whose outcome is the last entry of the logs.          *)
C6_RollbackOnApplyFailure ==
    [][\A t \in Tasks :
         (tasks[t].pc = "apply_changes" /\ tasks'[t] # tasks[t]
          /\ tasks'[t].pc # "verify_fix") =>
            LET r == last_returned'.result
                outcome == tasks[t].plan.id \in state_backups
            IN /\ last_returned'.task = t
               /\ r.plan_id = tasks[t].plan.id
               /\ r.status = "FAILED"
               /\ ~r.success
               /\ r.rollback_executed = outcome
               /\ r.logs # <<>>
               /\ r.logs[Len(r.logs)] =
                     (IF outcome THEN "Rollback succeeded" ELSE "Rollback failed")
               /\ "Apply failed, attempting rollback..." \in Range(r.logs)]_vars

(* An apply has failed and the rollback has succeeded.                     *)
C6_Witness ==
    /\ Returned
    /\ last_returned.result.error_message = <<"Apply failed">>
    /\ last_returned.result.rollback_executed
    /\ last_returned.plan.id \in state_backups

Validated_ == v_result # <<>>

(* C7: for every plan, if the cost estimate's total_first_month, computed  *)
(* from the plan's declared cost or, when none is declared, from the       *)
(* action-keyed cost table, exceeds the auto-approve threshold,            *)
(* validate_plan returns requires_approval = true.                         *)
C7_CostGating ==
    (Validated_ /\ estimate_cost(v_plan).total_first_month > COST_THRESHOLD)
       => v_result[1].requires_approval

HardFailures ==
    {"No valid rollback plan found", "No safety checks defined in plan",
     "Missing required parameters", "Invalid Terraform configuration syntax"}

KeywordIn(text) ==
    \E k \in { <<"d","e","l","e","t","e">>, <<"d","e","s","t","r","o","y">>,
               <<"t","e","r","m","i","n","a","t","e">>, <<"d","r","o","p">>,
               <<"r","e","m","o","v","e">> } : Contains(Lower(text), k)

DestructiveMatch(plan) ==
    \/ KeywordIn(ActionValue[plan.action])
    \/ (plan.terraform_config.present /\ KeywordIn(plan.terraform_config.text))
    \/ \E p \in plan.parameters :
          \/ Contains(Lower(KeyText[p]), <<"f","o","r","c","e">>)
          \/ Contains(Lower(KeyText[p]), <<"d","e","s","t","r","o","y">>)

RollbackDescriptorValid(plan) ==
    /\ plan.rollback_plan.present
    /\ {"description", "steps"} \subseteq plan.rollback_plan.fields
    /\ plan.rollback_plan.steps >= 1

(* C9: for every plan whose rollback descriptor is absent, lacks the       *)
(* description or the steps, or has an empty step list, validate_plan      *)
(* returns is_safe = false with "No valid rollback plan found" in          *)
(* failed_checks; for every plan whose descriptor holds a description and  *)
(* at least one step that failed check is absent.                          *)
C9_RollbackCheck ==
    Validated_ =>
        IF RollbackDescriptorValid(v_plan)
        THEN "No valid rollback plan found" \notin Range(v_result[1].failed_checks)
        ELSE /\ ~v_result[1].is_safe
             /\ "No valid rollback plan found" \in Range(v_result[1].failed_checks)

(* A descriptor with description and steps, but an empty step list.        *)
C9_Witness ==
    /\ Validated_
    /\ v_plan.rollback_plan.present
    /\ v_plan.rollback_plan.fields = {"description", "steps"}
    /\ v_plan.rollback_plan.steps = 0
    /\ ~v_result[1].is_safe

DocumentAbsent(plan) ==
    ~plan.terraform_config.present \/ plan.terraform_config.text = <<>>

(* Non-empty once stripped, a block marker, and as many opening as closing *)
(* braces, at least one of each.                                           *)
DocumentWellFormed(text) ==
    /\ \E k \in 1..Len(text) : ~IsSpace(text[k])
    /\ \/ Contains(text, <<"r","e","s","o","u","r","c","e">>)
       \/ Contains(text, <<"d","a","t","a">>)
       \/ Contains(text, <<"m","o","d","u","l","e">>)
    /\ Count(text, "{") >= 1
    /\ Count(text, "{") = Count(text, "}")

C11_ApprovalIsExactlyTheOr ==
    Validated_ =>
        v_result[1].requires_approval =
           (\/ v_plan.requires_approval
            \/ DestructiveMatch(v_plan)
            \/ estimate_cost(v_plan).total_first_month > COST_THRESHOLD)

(* C12: when validate_terraform has succeeded, the Safety Validator        *)
(* returns is_safe = true and requires_approval = true, and auto_approve   *)
(* is false, execute_remediation returns at that step a result with status *)
(* PENDING, success, verification_passed and rollback_executed false,      *)
(* whose logs carry every warning of the validator; no backup is stored    *)
(* and the task is in no further step of the pipeline.                     *)
C12_PendingFrame ==
    [][\A t \in Tasks :
         (/\ tasks[t].pc = "validate_terraform"
          /\ tasks'[t] # tasks[t]
          /\ ~(last_returned'.task = t /\ ~last_returned'.safety_result.reached)
          /\ validate_plan(tasks[t].plan).is_safe
          /\ validate_plan(tasks[t].plan).requires_approval
          /\ ~tasks[t].auto_approve) =>
            LET r == last_returned'.result IN
            /\ last_returned'.task = t
            /\ r.plan_id = tasks[t].plan.id
            /\ r.status = "PENDING"
            /\ ~r.success
            /\ ~r.verification_passed
            /\ ~r.rollback_executed
            /\ Range(validate_plan(tasks[t].plan).warnings) \subseteq Range(r.logs)
            /\ state_backups' = state_backups
            /\ tasks[t].plan.id \notin state_backups'
            /\ ~(tasks'[t].pc \in PipelinePcs /\ tasks'[t].plan = tasks[t].plan)]_vars

(* A manual remediation without approval of a plan that declared           *)
(* requires_approval = false and that the validator holds: PENDING, with   *)
(* the destructive-operation warning in its logs.                          *)
C12_Witness ==
    /\ Returned
    /\ last_returned.caller = "remediate"
    /\ ~last_returned.plan.requires_approval
    /\ last_returned.safety_result.requires_approval
    /\ last_returned.result.status = "PENDING"
    /\ "Plan contains destructive operation" \in Range(last_returned.result.logs)
    /\ last_returned.plan.id \notin state_backups

(* C13: when execute_remediation returns its result to                     *)
(* handle_incident_workflow, the incident becomes RESOLVED exactly when    *)
(* result.success and result.verification_passed are both true and FAILED  *)
(* otherwise, and incidents_resolved grows by one exactly in the RESOLVED  *)
(* case.                                                                   *)
C13_ResolvedExactly ==
    [][last_returned'.caller = "workflow" =>
         LET r == last_returned'.result
             i == tasks[LoopTask].incident
             resolved == r.success /\ r.verification_passed
         IN /\ tasks[LoopTask].kind = "workflow"
            /\ incident_status[i] = "REMEDIATING"
            /\ incident_status'[i] = (IF resolved THEN "RESOLVED" ELSE "FAILED")
            /\ stats'.incidents_resolved =
                  stats.incidents_resolved + (IF resolved THEN 1 ELSE 0)
            /\ results'[i] = r]_vars

(* A workflow whose remediation succeeded and was verified: RESOLVED and   *)
(* counted.                                                                *)
C13_Witness ==
    /\ Returned
    /\ last_returned.caller = "workflow"
    /\ last_returned.result.success
    /\ last_returned.result.verification_passed
    /\ incident_status[last_returned.plan.incident_id] = "RESOLVED"
    /\ stats.incidents_resolved = 1

(* C14: an incident whose status is RESOLVED or FAILED keeps that status   *)
(* in every later step, whatever the loop reports and whatever is          *)
(* submitted to handle_incident_workflow or to the endpoints.              *)
C14_TerminalStatusKept ==
    [][\A i \in Incidents :
          incident_status[i] \in {"RESOLVED", "FAILED"} =>
             incident_status'[i] = incident_status[i]]_vars

(* C15: when diagnose_incident or generate_remediation_plan raises inside  *)
(* handle_incident_workflow, the incident becomes FAILED, the call returns *)
(* without a result (none is stored, none is counted) and the loop that    *)
(* called it goes on: it is still running and is either in the workflow of *)
(* the next incident of the tick or asleep.                                *)
C15_ExceptionEndsInFailed ==
    [][last_raised' # NoRaised =>
         LET i == last_raised' IN
         /\ tasks[LoopTask].kind = "workflow"
         /\ tasks[LoopTask].incident = i
         /\ tasks[LoopTask].pc \in {"diagnose_incident", "generate_remediation_plan"}
         /\ incident_status'[i] = "FAILED"
         /\ last_returned' = NoReturn
         /\ results' = results
         /\ stats'.remediations_executed = stats.remediations_executed
         /\ stats'.incidents_resolved = stats.incidents_resolved
         /\ running' = running
         /\ loop_pc' \in {"workflow", "sleep"}]_vars

(* Plan generation has raised for an incident that was diagnosed with      *)
(* enough confidence: FAILED, nothing stored, the loop asleep till the     *)
(* next tick.                                                              *)
C15_Witness ==
    /\ last_raised # NoRaised
    /\ diagnoses[last_raised] # NoDiagnosis
    /\ incident_status[last_raised] = "FAILED"
    /\ results[last_raised] = NoResult
    /\ running
    /\ loop_pc = "sleep"

(* C16: no error ends the autonomous loop. The loop task ends only when it *)
(* finds running false after a sleep or when it is cancelled; when the     *)
(* workflow of one incident ends in its except clause or with a failed     *)
(* remediation, the workflow of the next incident reported in the same     *)
(* tick is started in the same step;                                       *)
(* after a poll, failed or not, the loop is asleep or inside a workflow,   *)
(* and from a sleep with running true it goes nowhere but to a new poll.   *)
C16_LoopSurvivesErrors ==
    [][/\ (loop_pc' = "exited" /\ loop_pc # "exited") =>
             \/ (loop_pc = "sleep" /\ ~running)
             \/ Cancel
       /\ (/\ \/ last_raised' # NoRaised
               \/ (last_returned'.caller = "workflow" /\ ~last_returned'.result.success)
            /\ Tail(queue) # <<>>) =>
             /\ queue' = Tail(queue)
             /\ loop_pc' = "workflow"
             /\ tasks'[LoopTask].kind = "workflow"
             /\ tasks'[LoopTask].incident = Head(Tail(queue))
             /\ tasks'[LoopTask].pc = "diagnose_incident"
             /\ incident_status'[Head(Tail(queue))] = "DIAGNOSING"
       /\ (loop_pc = "detect" /\ loop_pc' # "detect" /\ ~Cancel) =>
             loop_pc' \in {"sleep", "workflow"}
       /\ (loop_pc = "sleep" /\ running /\ loop_pc' # "sleep" /\ ~Cancel) =>
             loop_pc' = "detect"]_vars

(* The workflow of the first of two incidents of a tick has just failed    *)
(* and the second one is being diagnosed.                                  *)
C16_Witness ==
    /\ last_raised # NoRaised
    /\ incident_status[last_raised] = "FAILED"
    /\ running
    /\ loop_pc = "workflow"
    /\ tasks[LoopTask].incident # last_raised
    /\ tasks[LoopTask].pc = "diagnose_incident"
    /\ queue = <<tasks[LoopTask].incident>>

(* C17: the loop starts the workflow only for an incident id that is not   *)
(* in active_incidents yet, so that an id reported in several ticks is     *)
(* counted once in incidents_detected: the counter never exceeds the       *)
(* number of ids tracked.                                                  *)
C17_TrackedIncidentNotHandledAgain ==
    [][/\ \A i \in Incidents :
             (/\ tasks'[LoopTask].kind = "workflow"
              /\ tasks'[LoopTask].incident = i
              /\ tasks'[LoopTask].pc = "diagnose_incident"
              /\ ~(tasks[LoopTask].kind = "workflow" /\ tasks[LoopTask].incident = i)) =>
                 i \notin active_incidents
       /\ stats'.incidents_detected <= Cardinality(active_incidents')]_vars

(* C18: once the loop's remediation has sent its apply, neither a stop nor *)
(* a cancellation of the loop takes it out of the pipeline: its next step  *)
(* is a later step of the same execution or the return of a result, which  *)
(* is recorded for the incident.                                           *)
C18_ApplyRunsToCompletion ==
    [][(/\ tasks[LoopTask].pc \in AppliedPcs \cup {"apply_changes"}
        /\ tasks'[LoopTask] # tasks[LoopTask]) =>
          \/ /\ tasks'[LoopTask].pc \in AppliedPcs
             /\ tasks'[LoopTask].plan = tasks[LoopTask].plan
          \/ /\ last_returned'.task = LoopTask
             /\ last_returned'.plan = tasks[LoopTask].plan
             /\ results'[tasks[LoopTask].incident] = last_returned'.result]_vars

(* C19: when the loop task ends, by a stop or by a cancellation, no        *)
(* tracked incident is left in DIAGNOSING or REMEDIATING, except the one   *)
(* whose remediation had sent its apply. Nothing writes a status after the *)
(* loop has ended, so what is left then is left forever.                   *)
C19_NoTransientStatusAfterExit ==
    [][(loop_pc # "exited" /\ loop_pc' = "exited") =>
          \A i \in active_incidents' :
             \/ incident_status'[i] \notin {"DIAGNOSING", "REMEDIATING"}
             \/ /\ tasks[LoopTask].incident = i
                /\ tasks[LoopTask].pc \in AppliedPcs]_vars

(* C22: while a task is inside execute_remediation for an incident, no     *)
(* other task stores a new diagnosis for that incident and no other task   *)
(* obtains a new plan for it from generate_remediation_plan.               *)
C22_NothingNewWhileExecuting ==
    [][\A i \in Incidents, t \in Tasks :
          (tasks[t].pc \in PipelinePcs /\ tasks[t].plan.incident_id = i) =>
             /\ diagnoses'[i] = diagnoses[i]
             /\ \A u \in Tasks \ {t} :
                   \/ tasks'[u].kind \notin {"workflow", "remediate"}
                   \/ plans_generated'[u] = plans_generated[u]
                   \/ tasks'[u].plan.incident_id # i]_vars

(* The entry execute_remediation appends when it starts each step.         *)
StepEntries ==
    <<"Step 1: Generating Terraform configuration...",
      "Step 2: Validating Terraform configuration...",
      "Step 3: Running safety validation...",
      "Step 4: Backing up current state...",
      "Step 5: Running Terraform plan (dry-run)...",
      "Step 6: Applying Terraform changes...",
      "Step 7: Verifying fix...",
      "Step 8: Updating knowledge base...">>

IsStepEntry(e) == e \in Range(StepEntries)

(* The number of steps started when execute_remediation returns from the   *)
(* await at pc; the safety validation is started once the adapter has      *)
(* found the document valid.                                               *)
StepsStarted(pc, safety_reached) ==
    CASE pc = "generate_terraform" -> 1
      [] pc = "validate_terraform" -> (IF safety_reached THEN 3 ELSE 2)
      [] pc = "plan" -> 5
      [] pc = "apply_changes" -> 6
      [] OTHER -> 8

(* C23: every result execute_remediation returns has logs that are not     *)
(* empty, begin with the start entry, and hold the entries of the steps    *)
(* started, each once and in the order of the pipeline, and of no other    *)
(* step; the rollback entry is there exactly when the apply failed.        *)
C23_LogsAuditTrail ==
    [][\A t \in Tasks :
          last_returned'.task = t =>
             LET r == last_returned'.result
                 k == StepsStarted(tasks[t].pc, last_returned'.safety_result.reached)
             IN /\ r.logs # <<>>
                /\ Head(r.logs) = "Starting remediation"
                /\ SelectSeq(r.logs, IsStepEntry) = SubSeq(StepEntries, 1, k)
                /\ ("Apply failed, attempting rollback..." \in Range(r.logs))
                      <=> (tasks[t].pc = "apply_changes")
                /\ ("Approval required before proceeding" \in Range(r.logs))
                      <=> (r.status = "PENDING")]_vars

(* A remediation that failed at the dry-run: five steps in its logs.       *)
C23_Witness ==
    /\ Returned
    /\ last_returned.result.status = "FAILED"
    /\ Head(last_returned.result.error_message) = "Terraform plan failed"
    /\ Len(last_returned.result.logs) >= 5
    /\ SelectSeq(last_returned.result.logs, IsStepEntry) = SubSeq(StepEntries, 1, 5)

(* The steps of the loop that end within a bound of time: the loop's own   *)
(* sleep, the monitor's and the agents' HTTP requests (httpx.Timeout in    *)
(* BaseAgent.__init__ and in the Prometheus client, a bounded number of    *)
(* retries) and the 30 s wait of verify_fix.  The answers of the Change    *)
(* Executor are not among them: _run_command awaits process.communicate()  *)
(* with no timeout, and nothing above it wraps the await in one.           *)
TimedStep ==
    \/ StartLoop
    \/ LoopDetected
    \/ DetectFailed
    \/ Wake
    \/ Diagnosed(LoopTask)
    \/ DiagnoseFailed(LoopTask)
    \/ Planned(LoopTask)
    \/ PlanFailed(LoopTask)
    \/ Generated(LoopTask)
    \/ Verified(LoopTask)
    \/ KnowledgeBaseUpdated(LoopTask)

(* The loop with the progress its timeouts give it: a timed step that      *)
(* stays possible is taken; an answer of the Change Executor may never     *)
(* come.                                                                   *)
TimedLoopSpec == Init /\ [][LoopNext]_vars /\ WF_vars(TimedStep)

(* The same loop if every call of the Change Executor ended in time too.   *)
AnsweringLoopSpec == Init /\ [][LoopNext]_vars /\ WF_vars(LoopNext)

(* C24: a workflow the loop is in always ends, whatever a collaborator     *)
(* does, so that the loop reaches its next tick (or its exit).             *)
C24_WorkflowAlwaysEnds ==
    (loop_pc = "workflow") ~> (loop_pc # "workflow")

(* The requests one client sends one after the other.                      *)
MaxRequests == 2

(* The client has its answer and sends its next request.                   *)
NextRequest(r) ==
    /\ tasks[r].pc = "done"
    /\ plans_generated[r] < MaxRequests
    /\ Becomes([State EXCEPT !.tasks[r] = IdleTask])

(* The loop and a client of POST /incidents/remediate that asks again:     *)
(* the only call in the program that carries an approval is that           *)
(* endpoint's auto_approve.                                                *)
ApprovalNext ==
    \/ StartLoop
    \/ Detected
    \/ DetectFailed
    \/ Wake
    \/ StopLoop
    \/ \E t \in Tasks :
          \/ Diagnosed(t)
          \/ DiagnoseFailed(t)
          \/ Planned(t)
          \/ PlanFailed(t)
          \/ Generated(t)
          \/ Validated(t)
          \/ BackedUp(t)
          \/ DryRun(t)
          \/ Applied(t)
          \/ Verified(t)
          \/ KnowledgeBaseUpdated(t)
    \/ \E r \in Requests :
          \/ RemediateRequest(r)
          \/ NextRequest(r)

ApprovalSpec == Init /\ [][ApprovalNext]_vars

(* C25: a request that approves the remediation of an incident whose       *)
(* stored result is PENDING continues the plan of that result at the       *)
(* state-snapshot step; it generates no new plan and repeats none of the   *)
(* steps 1 to 3.                                                           *)
C25_ApprovalContinuesThePlan ==
    [][\A r \in Requests, i \in Incidents :
          (/\ tasks[r].pc = "idle"
           /\ results[i].status = "PENDING"
           /\ tasks'[r].kind = "remediate"
           /\ tasks'[r].incident = i
           /\ tasks'[r].auto_approve)
          => /\ tasks'[r].pc = "_backup_state"
             /\ tasks'[r].plan.id = results[i].plan_id
             /\ plans_generated'[r] = plans_generated[r]]_vars

(* Calls of validate_plan on the plan under test after the first one.      *)
MaxCalls == 1

(* Variant: the three lists are kept on the validator and grow from call   *)
(* to call.                                                                *)
ValidateAgain_lists_kept ==
    /\ v_result # <<>>
    /\ Len(v_result) < 1 + MaxCalls
    /\ LET last == v_result[Len(v_result)]
           now == validate_plan(v_plan)
       IN v_result' = Append(v_result,
             [now EXCEPT !.passed_checks = last.passed_checks \o @,
                         !.failed_checks = last.failed_checks \o @,
                         !.warnings = last.warnings \o @,
                         !.is_safe = (last.failed_checks \o now.failed_checks) = <<>>])
    /\ UNCHANGED <<v_plan, c_vars, io_vars>>

(* validate_plan is called again on the same plan object, after any calls  *)
(* on other plans: the method assigns to no attribute of the validator     *)
(* (auto_approve_threshold is written in __init__ only) and to none of the *)
(* plan, and builds its three lists anew in its locals.                    *)
ValidateAgain ==
    /\ v_result # <<>>
    /\ Len(v_result) < 1 + MaxCalls
    /\ v_result' = Append(v_result, validate_plan(v_plan))
    /\ UNCHANGED <<v_plan, c_vars, io_vars>>

RevalidateNext == ValidatePlan \/ ValidateAgain

RevalidateSpec == ValidatorInit /\ [][RevalidateNext]_vars

ApplyPreconditionEntries ==
    <<"Generated Terraform config",
      "Terraform configuration is valid",
      "Safety checks passed",
      "State backup complete",
      "Plan: to add, to change, to destroy">>

IsApplyPrecondition(e) == e \in Range(ApplyPreconditionEntries)

IsApplyEntry(e) == e = "Step 6: Applying Terraform changes..."

(* C27: an execution that has invoked apply has invoked it once, and got   *)
(* there through a change document, a valid adapter validation, a safe     *)
(* safety result, an approval not required or given, the state snapshot    *)
(* and a successful dry-run, each once and in that order; no execution     *)
(* returns having invoked apply twice.                                     *)
C27_ApplyOnceAfterItsPreconditions ==
    /\ \A t \in Tasks :
          tasks[t].pc \in AppliedPcs =>
             /\ Len(SelectSeq(tasks[t].logs, IsApplyEntry)) = 1
             /\ SelectSeq(tasks[t].logs, IsApplyPrecondition) = ApplyPreconditionEntries
             /\ tasks[t].safety_result.reached
             /\ tasks[t].safety_result.is_safe
             /\ (~tasks[t].safety_result.requires_approval \/ tasks[t].auto_approve)
             /\ tasks[t].safety_result.is_safe = validate_plan(tasks[t].plan).is_safe
    /\ \A t \in Tasks :
          tasks[t].pc \in PipelinePcs \ AppliedPcs =>
             SelectSeq(tasks[t].logs, IsApplyEntry) = <<>>
    /\ Returned => Len(SelectSeq(last_returned.result.logs, IsApplyEntry)) <= 1

(* The apply of a plan that needed the approval it was given.              *)
C27_Witness ==
    \E t \in Tasks :
       /\ tasks[t].pc = "apply_changes"
       /\ tasks[t].safety_result.requires_approval
       /\ tasks[t].auto_approve

(* The error a step before the apply reports when it fails at pc.          *)
StepError(pc, plan, safety_reached) ==
    CASE pc = "generate_terraform" -> <<"Failed to generate Terraform configuration">>
      [] pc = "validate_terraform" /\ ~safety_reached ->
            <<"Terraform validation failed", "validation_result.errors">>
      [] pc = "validate_terraform" /\ safety_reached ->
            <<"Safety validation failed">> \o validate_plan(plan).failed_checks
      [] OTHER -> <<"Terraform plan failed", "plan_result.plan_output">>

(* C28: an execution that ends at a step before the apply, other than by   *)
(* waiting for approval, returns in that very step a FAILED result with    *)
(* the error of that step (for the validator: its failed checks, of which  *)
(* there is one at least), with no entry of a later step or of a rollback  *)
(* in its logs, with rollback_executed false, and touches no snapshot.     *)
(* (A step that raises instead of failing is the subject of C34.)          *)
C28_FailFastBeforeApply ==
    [][\A t \in Tasks :
          (/\ tasks[t].pc \in PipelinePcs \ AppliedPcs
           /\ tasks'[t].pc \notin PipelinePcs
           /\ tasks[t].parameters_serialisable)
          => LET r == last_returned'.result
                 reached == last_returned'.safety_result.reached
             IN /\ last_returned'.task = t
                /\ \/ r.status = "PENDING"
                   \/ /\ r.status = "FAILED"
                      /\ ~r.success
                      /\ ~r.rollback_executed
                      /\ r.error_message = StepError(tasks[t].pc, tasks[t].plan, reached)
                      /\ Len(r.error_message) > 1
                            \/ tasks[t].pc = "generate_terraform"
                      /\ SelectSeq(r.logs, IsStepEntry)
                            = SubSeq(StepEntries, 1, StepsStarted(tasks[t].pc, reached))
                      /\ "Apply failed, attempting rollback..." \notin Range(r.logs)
                      /\ state_backups' = state_backups]_vars

(* A plan refused by the validator, with the check it failed.              *)
C28_Witness ==
    /\ Returned
    /\ last_returned.result.status = "FAILED"
    /\ Head(last_returned.result.error_message) = "Safety validation failed"
    /\ Len(last_returned.result.error_message) >= 2
    /\ last_returned.safety_result.reached
    /\ ~last_returned.result.rollback_executed

IsRollbackEntry(e) == e = "Apply failed, attempting rollback..."

IsRollbackOutcome(e) == e \in {"Rollback succeeded", "Rollback failed"}

(* C29: an execution invokes rollback once if it ends at a failed apply    *)
(* and never otherwise; whatever rollback answers, the execution returns   *)
(* in that step a FAILED result whose rollback_executed is that answer,    *)
(* and an execution still in the pipeline has invoked no rollback.         *)
C29_RollbackOnceAfterApplyFailure ==
    [][/\ \A t \in Tasks :
             last_returned'.task = t =>
                LET r == last_returned'.result
                    n == Len(SelectSeq(r.logs, IsRollbackEntry))
                IN /\ n = (IF tasks[t].pc = "apply_changes" THEN 1 ELSE 0)
                   /\ Len(SelectSeq(r.logs, IsRollbackOutcome)) = n
                   /\ n = 0 => ~r.rollback_executed
                   /\ n = 1 =>
                         /\ r.status = "FAILED"
                         /\ ~r.success
                         /\ r.rollback_executed = rollback(state_backups, tasks[t].plan)
                         /\ r.rollback_executed <=> "Rollback succeeded" \in Range(r.logs)
                         /\ tasks'[t].pc \notin PipelinePcs
       /\ \A t \in Tasks :
             tasks'[t].pc \in PipelinePcs =>
                SelectSeq(tasks'[t].logs, IsRollbackEntry) = <<>>]_vars

(* The result of an execution whose one rollback went through.             *)
C29_Witness ==
    /\ Returned
    /\ last_returned.result.status = "FAILED"
    /\ Len(SelectSeq(last_returned.result.logs, IsRollbackEntry)) = 1
    /\ "Rollback succeeded" \in Range(last_returned.result.logs)

(* C30: while an execution is at or past its apply, a record stored by its *)
(* own snapshot step is held under the id of its plan, and a rollback      *)
(* that was invoked has found it.                                          *)
C30_BackupHeldAtApply ==
    /\ \A t \in Tasks :
          tasks[t].pc \in AppliedPcs =>
             /\ tasks[t].plan.id \in state_backups
             /\ "State backup complete" \in Range(tasks[t].logs)
             /\ rollback(state_backups, tasks[t].plan)
    /\ (Returned /\ "Apply failed, attempting rollback..." \in Range(last_returned.result.logs))
          => /\ last_returned.plan.id \in state_backups
             /\ "Rollback failed" \notin Range(last_returned.result.logs)
             /\ last_returned.result.rollback_executed

(* An apply is awaited with the snapshots of two plans held.               *)
C30_Witness ==
    \E t \in Tasks :
       /\ tasks[t].pc = "apply_changes"
       /\ tasks[t].plan.id \in state_backups
       /\ state_backups # {tasks[t].plan.id}

(* The status changes handle_incident_workflow makes after its entry: the  *)
(* lifecycle, and the ones its except clause makes.                        *)
LifecycleEdges ==
    {<<"DIAGNOSING", "DIAGNOSED">>, <<"DIAGNOSED", "REMEDIATING">>,
     <<"REMEDIATING", "RESOLVED">>, <<"REMEDIATING", "FAILED">>}

ExceptionEdges ==
    {<<"DIAGNOSING", "FAILED">>, <<"DIAGNOSED", "FAILED">>, <<"REMEDIATING", "FAILED">>}

(* C31: a status changes only in a step of the workflow that handles that  *)
(* incident; the entry of the workflow writes DIAGNOSING (over DETECTED    *)
(* for an incident submitted once), every later change is the next edge of *)
(* the lifecycle, or goes to FAILED from a status that is not terminal in  *)
(* the step in which the workflow's except clause runs; no step of a       *)
(* request changes a status.                                               *)
C31_StatusFollowsTheLifecycle ==
    [][\A i \in Incidents :
          incident_status'[i] # incident_status[i] =>
             LET edge == <<incident_status[i], incident_status'[i]>>
                 entry == /\ tasks'[LoopTask].pc = "diagnose_incident"
                          /\ tasks'[LoopTask].incident = i
                          /\ stats'.incidents_detected = stats.incidents_detected + 1
             IN /\ \A r \in Requests : tasks'[r] = tasks[r]
                /\ tasks'[LoopTask] # tasks[LoopTask]
                /\ \/ entry /\ incident_status'[i] = "DIAGNOSING"
                   \/ /\ tasks[LoopTask].kind = "workflow"
                      /\ tasks[LoopTask].incident = i
                      /\ IF last_raised' = i
                         THEN edge \in ExceptionEdges
                         ELSE edge \in LifecycleEdges
                /\ (stats.incidents_detected = 0 /\ entry)
                      => incident_status[i] = "DETECTED"]_vars

(* An incident the workflow has taken through to RESOLVED while a request  *)
(* is in its own pipeline.                                                 *)
C31_Witness ==
    \E i \in Incidents :
       /\ incident_status[i] = "RESOLVED"
       /\ Returned
       /\ last_returned.caller = "workflow"
       /\ \E r \in Requests : tasks[r].pc \in PipelinePcs

(* An external call awaited by the loop's workflow returns or raises.      *)
CallAnswered ==
    \/ Diagnosed(LoopTask)
    \/ DiagnoseFailed(LoopTask)
    \/ Planned(LoopTask)
    \/ PlanFailed(LoopTask)
    \/ Generated(LoopTask)
    \/ Validated(LoopTask)
    \/ BackedUp(LoopTask)
    \/ DryRun(LoopTask)
    \/ Applied(LoopTask)
    \/ Verified(LoopTask)
    \/ KnowledgeBaseUpdated(LoopTask)

(* The loop when its task is not cancelled.                                *)
UncancelledNext ==
    \/ StartLoop
    \/ LoopDetected
    \/ DetectFailed
    \/ Wake
    \/ StopLoop
    \/ CallAnswered

(* The loop when its task is not cancelled and every external call of the  *)
(* workflow ends.                                                          *)
UncancelledLoopSpec == Init /\ [][UncancelledNext]_vars /\ WF_vars(CallAnswered)

InWorkflowOf(i) ==
    tasks[LoopTask].kind = "workflow" /\ tasks[LoopTask].incident = i

(* The awaits of one invocation of handle_incident_workflow, in the order  *)
(* in which the invocation reaches them.                                   *)
WorkflowAwaits ==
    <<"diagnose_incident", "generate_remediation_plan", "generate_terraform",
      "validate_terraform", "_backup_state", "plan", "apply_changes",
      "verify_fix", "_update_knowledge_base">>

AwaitNumber(pc) == CHOOSE n \in 1..Len(WorkflowAwaits) : WorkflowAwaits[n] = pc

(* C32: an invocation of handle_incident_workflow is always at an await    *)
(* whose answer it can take, each answer takes it to a later await or out  *)
(* of the workflow, so that it ends once its calls are answered; and the   *)
(* step in which it ends leaves its incident in DIAGNOSED, RESOLVED or     *)
(* FAILED, in DIAGNOSED only where the gate is not met.                    *)
C32_WorkflowEndsSettled ==
    /\ [](\A i \in Incidents :
            InWorkflowOf(i) =>
               /\ tasks[LoopTask].pc \in Range(WorkflowAwaits)
               /\ ENABLED CallAnswered)
    /\ [][\A i \in Incidents :
             (InWorkflowOf(i) /\ tasks'[LoopTask] # tasks[LoopTask]) =>
                \/ /\ InWorkflowOf(i)'
                   /\ stats'.incidents_detected = stats.incidents_detected
                   /\ AwaitNumber(tasks'[LoopTask].pc) > AwaitNumber(tasks[LoopTask].pc)
                \/ /\ \/ ~InWorkflowOf(i)'
                      \/ stats'.incidents_detected > stats.incidents_detected
                   /\ incident_status'[i] \in {"DIAGNOSED", "RESOLVED", "FAILED"}
                   /\ incident_status'[i] = "DIAGNOSED" =>
                         /\ tasks[LoopTask].pc = "diagnose_incident"
                         /\ ~should_remediate(auto_remediation_enabled, diagnoses'[i])]_vars

(* The workflow of an incident has ended in RESOLVED and the loop sleeps.  *)
C32_Witness ==
    \E i \in Incidents :
       /\ incident_status[i] = "RESOLVED"
       /\ loop_pc = "sleep"
       /\ tasks[LoopTask] = IdleTask
       /\ Returned

(* stop_autonomous_loop is called when the loop task has been created and  *)
(* has not taken its first step: running is False already and stays so.    *)
StopUnstarted ==
    /\ loop_pc = "not_started"
    /\ ~stop_called
    /\ Becomes([State EXCEPT !.running = FALSE, !.stop_called = TRUE])

(* The loop and a caller of stop_autonomous_loop, at any point from the    *)
(* creation of the loop task on.                                           *)
LifecycleNext ==
    \/ UncancelledNext
    \/ StopUnstarted

LifecycleSpec == Init /\ [][LifecycleNext]_vars

(* C33: once stop_autonomous_loop has been called the loop begins no       *)
(* detection tick, and running stays false.                                *)
C33_NoTickAfterStop ==
    [][stop_called =>
          /\ ~(loop_pc # "detect" /\ loop_pc' = "detect")
          /\ ~running']_vars


(* C34: execute_remediation propagates no exception of its steps: every    *)
(* step that ends an execution hands its caller a result, and the step     *)
(* that raises ends it with a FAILED result that carries the text of the   *)
(* exception as its error_message, the exception as the last entry of its  *)
(* logs, no rollback and no cost.                                          *)
C34_ExceptionsBecomeFailedResults ==
    [][\A t \in Tasks :
          (tasks[t].pc \in PipelinePcs /\ tasks'[t].pc \notin PipelinePcs)
          => LET r == last_returned'.result
             IN /\ last_returned'.task = t
                /\ last_returned'.plan = tasks[t].plan
                /\ r.status \in {"SUCCESS", "VERIFYING", "PENDING", "FAILED"}
                /\ ~tasks[t].parameters_serialisable
                      => /\ tasks[t].pc = "generate_terraform"
                         /\ r.status = "FAILED"
                         /\ ~r.success
                         /\ r.error_message = <<DumpsError>>
                         /\ r.logs = tasks[t].logs \o <<"Exception">>
                         /\ ~r.rollback_executed
                         /\ r.actual_cost = NoCost]_vars

(* A caught exception: the returned result is FAILED with its text.        *)
C34_Witness ==
    /\ Returned
    /\ last_returned.result.status = "FAILED"
    /\ last_returned.result.error_message = <<DumpsError>>
    /\ last_returned.result.logs[Len(last_returned.result.logs)] = "Exception"


(* The nesting depth after each character of a text, or -1 from the first  *)
(* closing brace on that has no unmatched opening brace before it.         *)
RECURSIVE Depth(_)
Depth(text) ==
    IF text = <<>> THEN 0
    ELSE LET before == Depth(SubSeq(text, 1, Len(text) - 1))
             c == text[Len(text)]
         IN IF before < 0 THEN -1
            ELSE IF c = "{" THEN before + 1
            ELSE IF c = "}" THEN before - 1
            ELSE before

(* Every closing brace matches an earlier unmatched opening brace and no   *)
(* opening brace is left unmatched.                                        *)
NestingBalanced(text) == Depth(text) = 0

(* C35: validate_plan records no syntax failure for an attached document   *)
(* only if the document is non-blank, holds a block marker and its braces  *)
(* are balanced in the nesting sense; for an absent document it records    *)
(* the warning and no syntax failure.                                      *)
C35_DocumentAcceptedOnlyIfNested ==
    Validated_ =>
        LET config == v_plan.terraform_config
            refused == "Invalid Terraform configuration syntax"
                          \in Range(v_result[1].failed_checks)
        IN IF Truthy(config)
             THEN ~refused =>
                     /\ \E k \in 1..Len(config.text) : ~IsSpace(config.text[k])
                     /\ \/ Contains(config.text, <<"r","e","s","o","u","r","c","e">>)
                        \/ Contains(config.text, <<"d","a","t","a">>)
                        \/ Contains(config.text, <<"m","o","d","u","l","e">>)
                     /\ NestingBalanced(config.text)
             ELSE /\ ~refused
                  /\ "No Terraform configuration provided"
                        \in Range(v_result[1].warnings)


(* C36: in every reachable state incidents_resolved <=                      *)
(* remediations_successful <= remediations_executed <= incidents_detected, *)
(* and no step lowers any of the five counters of stats.                   *)
C36_CountersOrderedAndMonotone ==
    /\ [](/\ stats.incidents_resolved <= stats.remediations_successful
          /\ stats.remediations_successful <= stats.remediations_executed
          /\ stats.remediations_executed <= stats.incidents_detected)
    /\ [][/\ stats'.incidents_detected >= stats.incidents_detected
          /\ stats'.incidents_resolved >= stats.incidents_resolved
          /\ stats'.remediations_executed >= stats.remediations_executed
          /\ stats'.remediations_successful >= stats.remediations_successful
          /\ stats'.total_cost >= stats.total_cost]_vars

(* An incident resolved at a cost while a request is executing a plan.     *)
C36_Witness ==
    /\ stats.incidents_resolved >= 1
    /\ stats.total_cost > 0
    /\ \E r \in Requests : tasks[r].pc \in PipelinePcs


(* C37: in every reachable state an incident with a stored result has a    *)
(* stored diagnosis, an incident with a stored diagnosis is in             *)
(* active_incidents, the stored diagnosis and the stored result name the   *)
(* incident they are stored under, and no step removes an entry of         *)
(* active_incidents, diagnoses or results.                                 *)
C37_StoresAreNested ==
    /\ [](\A i \in Incidents :
             /\ results[i] # NoResult => diagnoses[i] # NoDiagnosis
             /\ diagnoses[i] # NoDiagnosis => i \in active_incidents
             /\ diagnoses[i] # NoDiagnosis => diagnoses[i].incident_id = i
             /\ results[i] # NoResult => results[i].incident_id = i)
    /\ [][\A i \in Incidents :
             /\ i \in active_incidents => i \in active_incidents'
             /\ diagnoses[i] # NoDiagnosis => diagnoses'[i] # NoDiagnosis
             /\ results[i] # NoResult => results'[i] # NoResult]_vars

(* A result stored by a manual remediation for an incident of the loop.    *)
C37_Witness ==
    /\ Returned
    /\ last_returned.caller = "remediate"
    /\ \E i \in Incidents : results[i] = last_returned.result


(* C38: every result execute_remediation returns is consistent: SUCCESS    *)
(* goes with success and verification_passed, verification_passed with     *)
(* success, rollback_executed with FAILED after an apply that was started  *)
(* and failed, PENDING and FAILED with success false and no actual_cost,   *)
(* and plan_id and incident_id are those of the plan that was executed.    *)
C38_ResultIsConsistent ==
    Returned =>
        LET r == last_returned.result
        IN /\ r.status = "SUCCESS" => r.success /\ r.verification_passed
           /\ r.verification_passed => r.success
           /\ r.rollback_executed =>
                 /\ r.status = "FAILED"
                 /\ r.error_message = <<"Apply failed">>
                 /\ Len(SelectSeq(r.logs, IsApplyEntry)) = 1
                 /\ Len(SelectSeq(r.logs, IsRollbackEntry)) = 1
           /\ r.status \in {"PENDING", "FAILED"} =>
                 ~r.success /\ r.actual_cost = NoCost
           /\ r.plan_id = last_returned.plan.id
           /\ r.incident_id = last_returned.plan.incident_id

(* A result with a rollback is returned while the result stored for some   *)
(* incident is a success.                                                  *)
C38_Witness ==
    /\ Returned
    /\ last_returned.result.rollback_executed
    /\ \E i \in Incidents : results[i].status = "SUCCESS"


(***************************************************************************)
(* BaseAgent.query_agent: one call on an agent built with max_retries      *)
(***************************************************************************)
RetryableErrors == {"HTTPStatusError", "RequestError"}

Answers == {"ok", "Exception"} \cup RetryableErrors

RECURSIVE Pow2(_)
Pow2(n) == IF n = 0 THEN 1 ELSE 2 * Pow2(n - 1)

(* `for attempt in range(self.max_retries)` takes its next value, or the   *)
(* loop is over and the method ends without a return statement.            *)
NextAttempt(q, attempt) ==
    IF attempt < q.max_retries
    THEN [q EXCEPT !.pc = "post", !.attempt = attempt, !.sent = @ + 1]
    ELSE [q EXCEPT !.pc = "done", !.outcome = "returned None"]

(* Variant: the last failure is retried like the others.                   *)
QueryResponded_last_retried(q, answer) ==
    LET q1 == [q EXCEPT !.answers = Append(@, answer)]
    IN CASE answer = "ok" ->
              [q1 EXCEPT !.pc = "done", !.outcome = "returned response"]
         [] answer \in RetryableErrors ->
              IF q.attempt < q.max_retries
              THEN [q1 EXCEPT !.pc = "sleep", !.slept = Append(@, Pow2(q.attempt))]
              ELSE [q1 EXCEPT !.pc = "done", !.outcome = "raised after max_retries"]
         [] OTHER ->
              [q1 EXCEPT !.pc = "done", !.outcome = "raised unexpected"]

(* The await of self.client.post is over: the response passed              *)
(* raise_for_status and was parsed, or one of the except clauses ran.      *)
QueryResponded(q, answer) ==
    LET q1 == [q EXCEPT !.answers = Append(@, answer)]
    IN CASE answer = "ok" ->
              [q1 EXCEPT !.pc = "done", !.outcome = "returned response"]
         [] answer \in RetryableErrors ->
              IF q.attempt < q.max_retries - 1
              THEN [q1 EXCEPT !.pc = "sleep", !.slept = Append(@, Pow2(q.attempt))]
              ELSE [q1 EXCEPT !.pc = "done", !.outcome = "raised after max_retries"]
         [] OTHER ->
              [q1 EXCEPT !.pc = "done", !.outcome = "raised unexpected"]

QueryFrame == UNCHANGED <<v_vars, c_vars, tf_files, tf_calls>>

QueryStart ==
    /\ q_call.pc = "idle"
    /\ q_call' = NextAttempt(q_call, 0)
    /\ QueryFrame

QueryAnswered ==
    /\ q_call.pc = "post"
    /\ \E answer \in Answers : q_call' = QueryResponded(q_call, answer)
    /\ QueryFrame

QueryWoke ==
    /\ q_call.pc = "sleep"
    /\ q_call' = NextAttempt(q_call, q_call.attempt + 1)
    /\ QueryFrame

(* An agent built with any max_retries up to the bound, zero included.    *)
QueryInit ==
    /\ auto_remediation_enabled = TRUE
    /\ CoordinatorInit
    /\ v_plan = Plan("RESTART_SERVICE", NoConfig, {}, 0, 0, NoRollback, FALSE, NoCost)
    /\ v_result = <<>>
    /\ \E m \in 0..MaxRetries : q_call = [NoQuery EXCEPT !.max_retries = m]
    /\ tf_files = NoFiles
    /\ tf_calls = [c \in Callers |-> NoTerraformCall]

QueryNext ==
    \/ QueryStart
    \/ QueryAnswered
    \/ QueryWoke

QuerySpec == QueryInit /\ [][QueryNext]_vars

(* C39: one call of query_agent on an agent with max_retries >= 1 sends at *)
(* most max_retries requests; every request but the last was answered by   *)
(* an HTTP-status or transport error and followed by a sleep; the call     *)
(* ends in the step its request is answered otherwise or the               *)
(* max_retries-th request has failed: it returns the response on a         *)
(* success, raises the unexpected exception at once, raises after          *)
(* max_retries failures, and never ends without a response or an           *)
(* exception.                                                              *)
C39_RetriesAreBounded ==
    q_call.max_retries >= 1 =>
        LET n == Len(q_call.answers)
            InFlight == IF q_call.pc = "post" THEN 1 ELSE 0
        IN /\ q_call.sent <= q_call.max_retries
           /\ q_call.sent = n + InFlight
           /\ \A k \in 1..n :
                 (k < n \/ q_call.pc # "done") => q_call.answers[k] \in RetryableErrors
           /\ Len(q_call.slept) = (IF q_call.pc = "done" /\ n > 0 THEN n - 1 ELSE n)
           /\ q_call.pc = "sleep" => n < q_call.max_retries
           /\ q_call.pc = "done" =>
                 /\ n >= 1
                 /\ q_call.outcome =
                       (CASE q_call.answers[n] = "ok" -> "returned response"
                          [] q_call.answers[n] = "Exception" -> "raised unexpected"
                          [] OTHER -> "raised after max_retries")
                 /\ q_call.answers[n] \in RetryableErrors => n = q_call.max_retries

(* The default agent gets its response at its third and last request.      *)
C39_Witness ==
    /\ q_call.max_retries = DEFAULT_MAX_RETRIES
    /\ q_call.pc = "done"
    /\ q_call.sent = DEFAULT_MAX_RETRIES
    /\ q_call.outcome = "returned response"
    /\ q_call.slept = <<1, 2>>


(***************************************************************************)
(* TerraformMCP: validate_config, plan and apply of several callers on the *)
(* one instance and working directory that initialize_system hands to the  *)
(* agents                                                                  *)
(***************************************************************************)
TerraformOps == {"validate_config", "plan", "apply"}

(* Configurations are told apart by their number; variables 0 are None or  *)
(* an empty dict, for which no file is written and no -var-file is passed. *)
TerraformConfigIds == 1..MaxConfigs

TerraformVariables(op) == IF op = "validate_config" THEN {0} ELSE 0..MaxConfigs

TerraformFrame == UNCHANGED <<v_vars, c_vars, q_call>>

(* The call up to `await self.init()`: main.tf is written, and             *)
(* terraform.tfvars.json if variables were given.                          *)
TerraformCall(c) ==
    /\ tf_calls[c].pc = "idle"
    /\ \E op \in TerraformOps, config \in TerraformConfigIds :
          \E variables \in TerraformVariables(op) :
             /\ tf_files' = [main_tf |-> config,
                             tfvars |-> IF variables # 0 THEN variables
                                        ELSE tf_files.tfvars]
             /\ tf_calls' = [tf_calls EXCEPT ![c] =
                               [NoTerraformCall EXCEPT !.pc = "init", !.op = op,
                                                       !.config = config,
                                                       !.variables = variables]]
    /\ TerraformFrame

(* `terraform init` is over, whatever it answered; the command of the call *)
(* is started with _run_command.                                           *)
TerraformInitDone(c) ==
    /\ tf_calls[c].pc = "init"
    /\ tf_calls' = [tf_calls EXCEPT ![c].pc = "command"]
    /\ UNCHANGED tf_files
    /\ TerraformFrame

(* The terraform process of the call reads the working directory.          *)
TerraformRan(c) ==
    /\ tf_calls[c].pc = "command"
    /\ tf_calls' = [tf_calls EXCEPT
                      ![c].pc = "done",
                      ![c].ran = [main_tf |-> tf_files.main_tf,
                                  tfvars |-> IF tf_calls[c].variables # 0
                                             THEN tf_files.tfvars ELSE 0]]
    /\ UNCHANGED tf_files
    /\ TerraformFrame

TerraformInit ==
    /\ auto_remediation_enabled = TRUE
    /\ CoordinatorInit
    /\ IoInit
    /\ v_plan = Plan("RESTART_SERVICE", NoConfig, {}, 0, 0, NoRollback, FALSE, NoCost)
    /\ v_result = <<>>

TerraformNext ==
    \E c \in Callers :
       \/ TerraformCall(c)
       \/ TerraformInitDone(c)
       \/ TerraformRan(c)

TerraformSpec == TerraformInit /\ [][TerraformNext]_vars

(* C40: the terraform command of every plan and apply call has run against *)
(* the configuration and the variables passed to that call, whatever other *)
(* calls on the same instance ran in between.                              *)
C40_CommandRunsOnItsOwnInput ==
    \A c \in Callers :
       (tf_calls[c].pc = "done" /\ tf_calls[c].op \in {"plan", "apply"})
       => /\ tf_calls[c].ran.main_tf = tf_calls[c].config
          /\ tf_calls[c].ran.tfvars = tf_calls[c].variables

====
